---- MODULE Spec2Model ----
(***************************************************************************)
(* A model of the Boggle solver: the growable bit set (bitset/bitset.rs),  *)
(* the 32-wide bit set (bitset/bitset_32.rs), the radix-26 trie (trie.rs), *)
(* the letter-indexed board (boggle/radix_board.rs) and the two search     *)
(* forms of main.rs (solve_radix / descend_radix and DictBasedIterator).   *)
(*                                                                         *)
(* Encodings.                                                              *)
(*  - A machine word (u64, u32) is the set of the offsets of its 1-bits,   *)
(*    counted from the most significant bit, as the code addresses them:   *)
(*    TWO_POW_64 >> off is {off}, MAX >> off is off..63, leading_zeros is  *)
(*    the least element, x == 1 is {63}, x == 0 is {}.                     *)
(*  - A u8 neighbour mask is an integer in 0..255.                         *)
(*  - A string is a sequence of ASCII codes; a letter value is 0..25.      *)
(*  - A trie is a function from the paths of its nodes (sequences of       *)
(*    letter values, <<>> the root) to the node's fields; children[i] of   *)
(*    node p is present iff Append(p, i) is in the domain.                 *)
(***************************************************************************)
EXTENDS Integers, Sequences, FiniteSets

VARIABLES
    trie,       \* Trie: path -> [node_type, child_set]
    lastCall,   \* the last Trie::insert call: [s, id, ret] (none before the first)
    inserted,   \* history: lower-cased word -> id of its most recent successful insert
    nCalls,     \* number of insert calls made
    grid,       \* the SimpleBoggleBoard's cells (letter values), row-major
    board,      \* RadixBoggleBoard: [width, height, alpha, cells]
    fromIdx,    \* RadixBoggleBoard::from: how many cells have been set
    panicked,   \* an index out of range aborted the construction
    pc,         \* position of the solve driver
    eager,      \* solve_radix: [word, path, words, out, seen, restored], out the strings
                \* printed, in order; seen and restored record what the run did
    iter,       \* DictBasedIterator: [state, word]
    lazyOut,    \* the strings DictBasedIterator::next has returned, in order
    bits,       \* a BitSet: [data, len]
    bits32,     \* a BitSet32: its value
    bitCall,    \* the last call on bits or bits32: [op, i] (none before the first)
    naive,      \* solve over the SimpleBoggleBoard: the same record as eager
    reader,     \* SimpleBoggleBoard::read: [lines, res], its input and what it returned
    calls,      \* the calls of DictBasedIterator::next made before one returned None
    par         \* par_solve_radix: [forest, workers, out], out the strings printed, in order

vars == <<trie, lastCall, inserted, nCalls, grid, board, fromIdx, panicked,
          pc, eager, naive, iter, lazyOut, calls, bits, bits32, bitCall, par, reader>>

trieVars   == <<trie, lastCall, inserted, nCalls>>
boardVars  == <<grid, board, fromIdx, panicked>>
searchVars == <<pc, eager, naive, iter, lazyOut, calls, par>>
bitVars    == <<bits, bits32, bitCall>>

----------------------------------------------------------------------------
(* Sequence helpers *)

Last(s)  == s[Len(s)]
Front(s) == SubSeq(s, 1, Len(s) - 1)
Range(s) == {s[k] : k \in 1..Len(s)}
Max(a, b) == IF a >= b THEN a ELSE b
SetMin(S) == CHOOSE x \in S : \A y \in S : x <= y
SetMax(S) == CHOOSE x \in S : \A y \in S : x >= y

RECURSIVE SeqsUpTo(_, _)
SeqsUpTo(S, n) ==
    IF n = 0 THEN {<<>>}
    ELSE LET shorter == SeqsUpTo(S, n - 1)
         IN  shorter \cup {Append(s, x) : s \in shorter, x \in S}

----------------------------------------------------------------------------
(* bitset/bitset.rs: BitSet *)

WORD_BITS == 64

BitSetNew == [data |-> <<>>, len |-> 0]

BitSetIdx(i) == [idx |-> i \div WORD_BITS, off |-> i % WORD_BITS]

BitSetGet(b, i) ==
    LET p == BitSetIdx(i)
    IN  IF Len(b.data) > p.idx THEN p.off \in b.data[p.idx + 1] ELSE FALSE

\* data.resize(n, 0)
Resize(data, n) == [k \in 1..n |-> IF k <= Len(data) THEN data[k] ELSE {}]

BitSetAdd(b, i) ==
    LET p    == BitSetIdx(i)
        data == IF p.idx >= Len(b.data) THEN Resize(b.data, p.idx + 1) ELSE b.data
    IN  [data |-> [data EXCEPT ![p.idx + 1] = @ \cup {p.off}],
         len  |-> Max(b.len, i + 1)]

\* datum.trailing_zeros(), datum non-zero: the zero bits below the lowest set bit
TrailingZeros(datum) == (WORD_BITS - 1) - SetMax(datum)

\* remove's scan of data.iter().enumerate().rev(), words 1..n still to visit
RECURSIVE RescanLen(_, _)
RescanLen(data, n) ==
    IF n = 0 THEN 0
    ELSE IF data[n] # {}
    THEN (n - 1) * WORD_BITS + (WORD_BITS - TrailingZeros(data[n]))
    ELSE RescanLen(data, n - 1)

\* Faulty variant: the length is not recomputed when the highest bit goes.
BitSetRemoveKeepsLen(b, i) ==
    IF i < b.len
    THEN LET p == BitSetIdx(i)
         IN  [data |-> [b.data EXCEPT ![p.idx + 1] = @ \ {p.off}], len |-> b.len]
    ELSE b

BitSetRemove(b, i) ==
    IF i < b.len
    THEN LET p    == BitSetIdx(i)
             data == [b.data EXCEPT ![p.idx + 1] = @ \ {p.off}]
         IN  [data |-> data,
              len  |-> IF i = b.len - 1 THEN RescanLen(data, Len(data)) ELSE b.len]
    ELSE b

\* Faulty variant: the storage is emptied, not zeroed.
BitSetClearDropsWords(b) == [data |-> <<>>, len |-> 0]

BitSetClear(b) == [data |-> [k \in 1..Len(b.data) |-> {}], len |-> 0]

IndexIterNew == [idx |-> 0, off |-> 0]

\* Faulty variant: the offset is kept when the cursor moves to the next word.
RECURSIVE IndexIterNextKeepsOffset(_, _)
IndexIterNextKeepsOffset(b, it) ==
    IF it.idx < Len(b.data)
    THEN LET v == {o \in b.data[it.idx + 1] : o >= it.off}
         IN  IF v = {}
             THEN IndexIterNextKeepsOffset(b, [idx |-> it.idx + 1, off |-> it.off])
             ELSE IF v = {WORD_BITS - 1}
             THEN [some |-> TRUE, val |-> (it.idx + 1) * WORD_BITS - 1,
                   it |-> [idx |-> it.idx + 1, off |-> 0]]
             ELSE LET lz == SetMin(v)
                  IN  [some |-> TRUE, val |-> it.idx * WORD_BITS + lz,
                       it |-> [idx |-> it.idx, off |-> lz + 1]]
    ELSE [some |-> FALSE, val |-> 0, it |-> it]

\* Faulty variant: the cursor moves two bits past the bit found, not one.
RECURSIVE IndexIterNextSkips(_, _)
IndexIterNextSkips(b, it) ==
    IF it.idx < Len(b.data)
    THEN LET v == {o \in b.data[it.idx + 1] : o >= it.off}
         IN  IF v = {}
             THEN IndexIterNextSkips(b, [idx |-> it.idx + 1, off |-> 0])
             ELSE IF v = {WORD_BITS - 1}
             THEN [some |-> TRUE, val |-> (it.idx + 1) * WORD_BITS - 1,
                   it |-> [idx |-> it.idx + 1, off |-> 0]]
             ELSE LET lz == SetMin(v)
                  IN  [some |-> TRUE, val |-> it.idx * WORD_BITS + lz,
                       it |-> [idx |-> it.idx, off |-> lz + 2]]
    ELSE [some |-> FALSE, val |-> 0, it |-> it]

\* IndexIter::next: [some, val, it]
RECURSIVE IndexIterNext(_, _)
IndexIterNext(b, it) ==
    IF it.idx < Len(b.data)
    THEN LET v == {o \in b.data[it.idx + 1] : o >= it.off}
         IN  IF v = {}
             THEN IndexIterNext(b, [idx |-> it.idx + 1, off |-> 0])
             ELSE IF v = {WORD_BITS - 1}
             THEN [some |-> TRUE, val |-> (it.idx + 1) * WORD_BITS - 1,
                   it |-> [idx |-> it.idx + 1, off |-> 0]]
             ELSE LET lz == SetMin(v)
                  IN  [some |-> TRUE, val |-> it.idx * WORD_BITS + lz,
                       it |-> [idx |-> it.idx, off |-> lz + 1]]
    ELSE [some |-> FALSE, val |-> 0, it |-> it]

\* The sequence an IndexIter yields until None.
RECURSIVE IndexIterDrain(_, _)
IndexIterDrain(b, it) ==
    LET r == IndexIterNext(b, it)
    IN  IF r.some THEN <<r.val>> \o IndexIterDrain(b, r.it) ELSE <<>>

IterOnes(b) == IndexIterDrain(b, IndexIterNew)

----------------------------------------------------------------------------
(* bitset/bitset_32.rs: BitSet32 *)

BitSet32New == {}

BitSet32Add(value, i) == value \cup {i}

BitSet32Remove(value, i) == value \ {i}

BitSet32Clear(value) == {}

BitSet32Set(value, i, v) == IF v THEN BitSet32Add(value, i) ELSE BitSet32Remove(value, i)

BitSet32Get(value, i) == i \in value

\* value.count_ones()
BitSet32Cardinality(value) == Cardinality(value)

IndexIter32New == 0

\* Faulty variant: the cursor stops one position early.
IndexIter32NextStopsEarly(value, i) ==
    IF i < 31
    THEN LET v == {o \in value : o >= i}
         IN  IF v # {}
             THEN LET lz == SetMin(v) IN [some |-> TRUE, val |-> lz, i |-> lz + 1]
             ELSE [some |-> FALSE, val |-> 0, i |-> 32]
    ELSE [some |-> FALSE, val |-> 0, i |-> i]

\* IndexIter32::next: [some, val, i]
IndexIter32Next(value, i) ==
    IF i < 32
    THEN LET v == {o \in value : o >= i}
         IN  IF v # {}
             THEN LET lz == SetMin(v) IN [some |-> TRUE, val |-> lz, i |-> lz + 1]
             ELSE [some |-> FALSE, val |-> 0, i |-> 32]
    ELSE [some |-> FALSE, val |-> 0, i |-> i]

\* The sequence an IndexIter32 yields until None.
RECURSIVE IndexIter32Drain(_, _)
IndexIter32Drain(value, i) ==
    LET r == IndexIter32Next(value, i)
    IN  IF r.some THEN <<r.val>> \o IndexIter32Drain(value, r.i) ELSE <<>>

BitSet32IterOnes(value) == IndexIter32Drain(value, IndexIter32New)

----------------------------------------------------------------------------
(* boggle_util.rs (not among the sources): the alphabet helpers, as the    *)
(* specification and the trie's tests describe them.                       *)

ALPHABET_SIZE == 26

UpperCodes == 65..90      \* 'A'..'Z'
LowerCodes == 97..122     \* 'a'..'z'

\* boggle_util::is_alpha: every character is in a-z / A-Z
IsAlpha(s) == \A k \in 1..Len(s) : s[k] \in UpperCodes \cup LowerCodes

\* boggle_util::ascii_byte_to_idx: 'a' -> 0 .. 'z' -> 25
AsciiByteToIdx(b) == b - 97

\* str::to_lowercase on ASCII text
ToLowercase(s) == [k \in 1..Len(s) |-> IF s[k] \in UpperCodes THEN s[k] + 32 ELSE s[k]]

----------------------------------------------------------------------------
(* trie.rs: Trie *)

Prefix   == [tag |-> "Prefix"]
Word(id) == [tag |-> "Word", id |-> id]
IsWord(nt) == nt.tag = "Word"

None    == [tag |-> "None"]
Some(x) == [tag |-> "Some", v |-> x]
\* an index outside the children array: the call panics
Panic   == [tag |-> "Panic"]

\* Trie::new (one node); the trie with only its root
NewNode == [node_type |-> Prefix, child_set |-> BitSet32New]
TrieNew == [p \in {<<>>} |-> NewNode]

\* Faulty variant: a node that already ends a word keeps its id (first write wins).
RECURSIVE InsFirstWins(_, _, _, _)
InsFirstWins(t, node, s, id) ==
    LET first == AsciiByteToIdx(s[1])
        child == Append(node, first)
        t1 == IF child \notin DOMAIN t
              THEN [p \in DOMAIN t \cup {child} |->
                       IF p = child THEN NewNode
                       ELSE IF p = node
                            THEN [t[p] EXCEPT !.child_set = BitSet32Add(@, first)]
                            ELSE t[p]]
              ELSE t
    IN  IF Len(s) > 1
        THEN InsFirstWins(t1, child, Tail(s), id)
        ELSE IF IsWord(t1[child].node_type) THEN t1
        ELSE [t1 EXCEPT ![child].node_type = Word(id)]

\* Faulty variant: every node on the path is classified Word(id), not only the last.
RECURSIVE InsMarksPath(_, _, _, _)
InsMarksPath(t, node, s, id) ==
    LET first == AsciiByteToIdx(s[1])
        child == Append(node, first)
        t1 == IF child \notin DOMAIN t
              THEN [p \in DOMAIN t \cup {child} |->
                       IF p = child THEN NewNode
                       ELSE IF p = node
                            THEN [t[p] EXCEPT !.child_set = BitSet32Add(@, first)]
                            ELSE t[p]]
              ELSE t
        t2 == [t1 EXCEPT ![child].node_type = Word(id)]
    IN  IF Len(s) > 1 THEN InsMarksPath(t2, child, Tail(s), id) ELSE t2

\* Faulty variant: a created child is not recorded in the parent's child_set.
RECURSIVE InsForgetsChildSet(_, _, _, _)
InsForgetsChildSet(t, node, s, id) ==
    LET first == AsciiByteToIdx(s[1])
        child == Append(node, first)
        t1 == IF child \notin DOMAIN t
              THEN [p \in DOMAIN t \cup {child} |-> IF p = child THEN NewNode ELSE t[p]]
              ELSE t
    IN  IF Len(s) > 1
        THEN InsForgetsChildSet(t1, child, Tail(s), id)
        ELSE [t1 EXCEPT ![child].node_type = Word(id)]

\* Faulty variant: a node the insert passes through is reset to Prefix.
RECURSIVE InsResetsPath(_, _, _, _)
InsResetsPath(t, node, s, id) ==
    LET first == AsciiByteToIdx(s[1])
        child == Append(node, first)
        t1 == IF child \notin DOMAIN t
              THEN [p \in DOMAIN t \cup {child} |->
                       IF p = child THEN NewNode
                       ELSE IF p = node
                            THEN [t[p] EXCEPT !.child_set = BitSet32Add(@, first)]
                            ELSE t[p]]
              ELSE t
    IN  IF Len(s) > 1
        THEN InsResetsPath([t1 EXCEPT ![child].node_type = Prefix], child, Tail(s), id)
        ELSE [t1 EXCEPT ![child].node_type = Word(id)]

\* Trie::ins
RECURSIVE Ins(_, _, _, _)
Ins(t, node, s, id) ==
    LET first == AsciiByteToIdx(s[1])
        child == Append(node, first)
        t1 == IF child \notin DOMAIN t
              THEN [p \in DOMAIN t \cup {child} |->
                       IF p = child THEN NewNode
                       ELSE IF p = node
                            THEN [t[p] EXCEPT !.child_set = BitSet32Add(@, first)]
                            ELSE t[p]]
              ELSE t
    IN  IF Len(s) > 1
        THEN Ins(t1, child, Tail(s), id)
        ELSE [t1 EXCEPT ![child].node_type = Word(id)]

\* the longest prefix of s made of letters
RECURSIVE AlphaPrefix(_)
AlphaPrefix(s) ==
    IF s = <<>> \/ ~IsAlpha(<<s[1]>>) THEN <<>> ELSE <<s[1]>> \o AlphaPrefix(Tail(s))

\* Faulty variant: the alphabet is checked character by character while inserting, so the
\* letters before the first bad character are already in the trie when it fails.
TrieInsertChecksWhileInserting(t, s, id) ==
    IF AlphaPrefix(s) = <<>> THEN [trie |-> t, ret |-> FALSE]
    ELSE [trie |-> Ins(t, <<>>, ToLowercase(AlphaPrefix(s)), id), ret |-> IsAlpha(s)]

\* Trie::insert: [trie, ret]
TrieInsert(t, s, id) ==
    IF IsAlpha(s)
    THEN [trie |-> Ins(t, <<>>, ToLowercase(s), id), ret |-> TRUE]
    ELSE [trie |-> t, ret |-> FALSE]

\* Trie::cns
RECURSIVE Cns(_, _, _)
Cns(t, node, s) ==
    LET first == AsciiByteToIdx(s[1])
        child == Append(node, first)
    IN  IF first \notin 0..(ALPHABET_SIZE - 1) THEN Panic
        ELSE IF child \in DOMAIN t
        THEN IF Len(s) = 1 THEN Some(t[child].node_type)
             ELSE Cns(t, child, Tail(s))
        ELSE None

\* Faulty variant: contains walks the string as given, without lower-casing it.
ContainsKeepsCase(t, s) ==
    IF IsAlpha(s) THEN Cns(t, <<>>, s) ELSE None

\* Trie::contains
Contains(t, s) ==
    IF IsAlpha(s) THEN Cns(t, <<>>, ToLowercase(s)) ELSE None

\* Trie::iter / TrieIterator::new
TrieIter(node) == [trie |-> node, iter |-> IndexIter32New]

\* TrieIterator::next: [some, child, letter, it]
TrieIterNext(t, it) ==
    LET r   == IndexIter32Next(t[it.trie].child_set, it.iter)
        it1 == [it EXCEPT !.iter = r.i]
    IN  IF r.some /\ Append(it.trie, r.val) \in DOMAIN t
        THEN [some |-> TRUE, child |-> Append(it.trie, r.val), letter |-> r.val, it |-> it1]
        ELSE [some |-> FALSE, child |-> <<>>, letter |-> 0, it |-> it1]

\* The sequence of <<child, letter>> a TrieIterator yields until None.
RECURSIVE TrieIterDrain(_, _)
TrieIterDrain(t, it) ==
    LET r == TrieIterNext(t, it)
    IN  IF r.some THEN <<<<r.child, r.letter>>>> \o TrieIterDrain(t, r.it) ELSE <<>>

----------------------------------------------------------------------------
(* boggle/radix_board.rs: RadixBoggleBoard *)

FLAG_NORTHWEST == 128
FLAG_NORTH     == 64
FLAG_NORTHEAST == 32
FLAG_WEST      == 16
FLAG_EAST      == 8
FLAG_SOUTHWEST == 4
FLAG_SOUTH     == 2
FLAG_SOUTHEAST == 1

LetterValues == 0..(ALPHABET_SIZE - 1)

\* a | flag, for a flag of one bit
Or8(a, flag) == IF (a \div flag) % 2 = 1 THEN a ELSE a + flag

\* u8::leading_zeros
LeadingZeros8(x) ==
    IF x >= 128 THEN 0 ELSE IF x >= 64 THEN 1 ELSE IF x >= 32 THEN 2
    ELSE IF x >= 16 THEN 3 ELSE IF x >= 8 THEN 4 ELSE IF x >= 4 THEN 5
    ELSE IF x >= 2 THEN 6 ELSE IF x >= 1 THEN 7 ELSE 8

\* RadixBoggleBoard::new
BoardNew(w, h) ==
    [width  |-> w,
     height |-> h,
     alpha  |-> [v \in LetterValues |-> BitSetNew],
     cells  |-> [k \in 1..(w * h) |-> [v \in LetterValues |-> 0]]]

\* The mask_cell calls of RadixBoggleBoard::set for cell i, in order: <<cell, flag>>
SetMasks(w, h, i) ==
    IF i = 0 THEN                                   \* northwest corner
        << <<i + 1, FLAG_WEST>>, <<i + w, FLAG_NORTH>>, <<i + w + 1, FLAG_NORTHWEST>> >>
    ELSE IF i = w - 1 THEN                          \* northeast corner
        << <<i - 1, FLAG_EAST>>, <<i + w - 1, FLAG_NORTHEAST>>, <<i + w, FLAG_NORTH>> >>
    ELSE IF i = w * (h - 1) THEN                    \* southwest corner
        << <<i - w, FLAG_SOUTH>>, <<i - w + 1, FLAG_SOUTHWEST>>, <<i + 1, FLAG_WEST>> >>
    ELSE IF i = w * h - 1 THEN                      \* southeast corner
        << <<i - w - 1, FLAG_SOUTHEAST>>, <<i - w, FLAG_SOUTH>>, <<i - 1, FLAG_EAST>> >>
    ELSE IF i < w THEN                              \* north edge
        << <<i - 1, FLAG_EAST>>, <<i + 1, FLAG_WEST>>, <<i + w - 1, FLAG_NORTHEAST>>,
           <<i + w, FLAG_NORTH>>, <<i + w + 1, FLAG_NORTHWEST>> >>
    ELSE IF i > w * (h - 1) THEN                    \* south edge
        << <<i - w - 1, FLAG_SOUTHEAST>>, <<i - w, FLAG_SOUTH>>, <<i - w + 1, FLAG_SOUTHWEST>>,
           <<i - 1, FLAG_EAST>>, <<i + 1, FLAG_WEST>> >>
    ELSE IF i % w = 0 THEN                          \* west edge
        << <<i - w, FLAG_SOUTH>>, <<i - w + 1, FLAG_SOUTHWEST>>, <<i + 1, FLAG_WEST>>,
           <<i + w, FLAG_NORTH>>, <<i + w + 1, FLAG_NORTHWEST>> >>
    ELSE IF i % w = w - 1 THEN                      \* east edge
        << <<i - w - 1, FLAG_SOUTHEAST>>, <<i - w, FLAG_SOUTH>>, <<i - 1, FLAG_EAST>>,
           <<i + w - 1, FLAG_NORTHEAST>>, <<i + w, FLAG_NORTH>> >>
    ELSE                                            \* interior
        << <<i - w - 1, FLAG_SOUTHEAST>>, <<i - w, FLAG_SOUTH>>, <<i - w + 1, FLAG_SOUTHWEST>>,
           <<i - 1, FLAG_EAST>>, <<i + 1, FLAG_WEST>>, <<i + w - 1, FLAG_NORTHEAST>>,
           <<i + w, FLAG_NORTH>>, <<i + w + 1, FLAG_NORTHWEST>> >>

\* RadixBoggleBoard::mask_cell, call after call: [board, panicked]. self.cells[i] is
\* bounds-checked: an index outside the slice panics and ends the construction.
RECURSIVE MaskCells(_, _, _)
MaskCells(bd, v, ms) ==
    IF ms = <<>> THEN [board |-> bd, panicked |-> FALSE]
    ELSE LET i == ms[1][1]
             mask == ms[1][2]
         IN  IF i \notin 0..(Len(bd.cells) - 1)
             THEN [board |-> bd, panicked |-> TRUE]
             ELSE MaskCells([bd EXCEPT !.cells[i + 1][v] = Or8(@, mask)], v, Tail(ms))

\* RadixBoggleBoard::set: [board, panicked]
BoardSet(bd, i, v) ==
    MaskCells([bd EXCEPT !.alpha[v] = BitSetAdd(@, i)], v, SetMasks(bd.width, bd.height, i))

\* RadixBoggleBoard::from, cells k.. of g: [board, panicked]
RECURSIVE BoardFromLoop(_, _, _)
BoardFromLoop(bd, g, k) ==
    IF k > Len(g) THEN [board |-> bd, panicked |-> FALSE]
    ELSE LET r == BoardSet(bd, k - 1, g[k])
         IN  IF r.panicked THEN r ELSE BoardFromLoop(r.board, g, k + 1)

BoardFrom(w, h, g) == BoardFromLoop(BoardNew(w, h), g, 1)

\* RadixBoggleBoard::any, drained
BoardAny(bd, v) == IterOnes(bd.alpha[v])

\* RadixBoggleBoard::neighbors
NeighborIter(bd, i, v) == [value |-> bd.cells[i + 1][v], idx |-> i, width |-> bd.width]

\* Faulty variant: the arm for the south-east bit is missing, so the bit falls to None.
NeighborIterNextNoSouthEast(it) ==
    LET lz == LeadingZeros8(it.value)
    IN  CASE lz = 0 -> [some |-> TRUE, val |-> it.idx - it.width - 1, it |-> [it EXCEPT !.value = @ % 128]]
          [] lz = 1 -> [some |-> TRUE, val |-> it.idx - it.width,     it |-> [it EXCEPT !.value = @ % 64]]
          [] lz = 2 -> [some |-> TRUE, val |-> it.idx - it.width + 1, it |-> [it EXCEPT !.value = @ % 32]]
          [] lz = 3 -> [some |-> TRUE, val |-> it.idx - 1,            it |-> [it EXCEPT !.value = @ % 16]]
          [] lz = 4 -> [some |-> TRUE, val |-> it.idx + 1,            it |-> [it EXCEPT !.value = @ % 8]]
          [] lz = 5 -> [some |-> TRUE, val |-> it.idx + it.width - 1, it |-> [it EXCEPT !.value = @ % 4]]
          [] lz = 6 -> [some |-> TRUE, val |-> it.idx + it.width,     it |-> [it EXCEPT !.value = @ % 2]]
          [] OTHER  -> [some |-> FALSE, val |-> 0, it |-> it]

\* RadixNeighborIter::next: [some, val, it]
NeighborIterNext(it) ==
    LET lz == LeadingZeros8(it.value)
    IN  CASE lz = 0 -> [some |-> TRUE, val |-> it.idx - it.width - 1, it |-> [it EXCEPT !.value = @ % 128]]
          [] lz = 1 -> [some |-> TRUE, val |-> it.idx - it.width,     it |-> [it EXCEPT !.value = @ % 64]]
          [] lz = 2 -> [some |-> TRUE, val |-> it.idx - it.width + 1, it |-> [it EXCEPT !.value = @ % 32]]
          [] lz = 3 -> [some |-> TRUE, val |-> it.idx - 1,            it |-> [it EXCEPT !.value = @ % 16]]
          [] lz = 4 -> [some |-> TRUE, val |-> it.idx + 1,            it |-> [it EXCEPT !.value = @ % 8]]
          [] lz = 5 -> [some |-> TRUE, val |-> it.idx + it.width - 1, it |-> [it EXCEPT !.value = @ % 4]]
          [] lz = 6 -> [some |-> TRUE, val |-> it.idx + it.width,     it |-> [it EXCEPT !.value = @ % 2]]
          [] lz = 7 -> [some |-> TRUE, val |-> it.idx + it.width + 1, it |-> [it EXCEPT !.value = 0]]
          [] OTHER  -> [some |-> FALSE, val |-> 0, it |-> it]

\* The sequence a RadixNeighborIter yields until None.
RECURSIVE NeighborIterDrain(_)
NeighborIterDrain(it) ==
    LET r == NeighborIterNext(it)
    IN  IF r.some THEN <<r.val>> \o NeighborIterDrain(r.it) ELSE <<>>

BoardNeighbors(bd, i, v) == NeighborIterDrain(NeighborIter(bd, i, v))

----------------------------------------------------------------------------
(* main.rs: the eager form, solve_radix / descend_radix *)

\* found = word.clone(); *b += 'a'
Found(word) == [k \in 1..Len(word) |-> word[k] + 97]

\* str::replace("q", "qu")
RECURSIVE ReplaceQ(_)
ReplaceQ(s) ==
    IF s = <<>> THEN <<>>
    ELSE IF s[1] = 113 THEN <<113, 117>> \o ReplaceQ(Tail(s))
    ELSE <<s[1]>> \o ReplaceQ(Tail(s))

\* Faulty variant: the found-word tracker is not consulted before printing.
ClassifyUngated(st, nt) ==
    IF IsWord(nt)
    THEN [st EXCEPT !.words = BitSetAdd(@, nt.id),
                    !.out   = Append(@, ReplaceQ(Found(st.word)))]
    ELSE st

\* descend_radix, the match on trie.node_type(): st is [word, path, words, out]
\* and, as a record of the run, seen: the buffers <<word, path>> at each match,
\* and restored: every descend_radix so far has returned with word and path as
\* they were at its entry
Classify(st, nt) ==
    LET st1 == [st EXCEPT !.seen = @ \cup {<<st.word, st.path>>}]
    IN  IF IsWord(nt) /\ ~BitSetGet(st.words, nt.id)
        THEN [st1 EXCEPT !.words = BitSetAdd(@, nt.id),
                         !.out   = Append(@, ReplaceQ(Found(st.word)))]
        ELSE st1

\* Faulty variant: only the cell the path ends at is refused.
UnvisitedLastOnly(path, pos) == pos # Last(path)

\* descend_radix: !path.contains(&pos)
Unvisited(path, pos) == pos \notin Range(path)

RECURSIVE DescendRadix(_, _, _, _)
RECURSIVE DescendChildren(_, _, _)
RECURSIVE DescendNeighbors(_, _, _, _)

\* A loop is a recursion on lp = [it, st]: the loop's iterator and the state
\* [word, path, words, out] its previous iteration has left.

\* Faulty variant: the cell is not popped from the path after the recursive call.
RECURSIVE DescendNeighborsKeepsPath(_, _, _, _)
DescendNeighborsKeepsPath(t, bd, child, lp) ==
    LET r  == NeighborIterNext(lp.it)
        st == lp.st
    IN  IF ~r.some THEN st
        ELSE IF Unvisited(st.path, r.val)
        THEN LET st1 == [st EXCEPT !.path = Append(@, r.val)]
                 st2 == Classify(st1, t[child].node_type)
                 st3 == DescendRadix(t, bd, child, st2)
             IN  DescendNeighborsKeepsPath(t, bd, child, [it |-> r.it, st |-> st3])
        ELSE DescendNeighborsKeepsPath(t, bd, child, [it |-> r.it, st |-> st])

\* descend_radix: the loop over board.neighbors(*path.last().unwrap(), i)
DescendNeighbors(t, bd, child, lp) ==
    LET r  == NeighborIterNext(lp.it)
        st == lp.st
    IN  IF ~r.some THEN st
        ELSE IF Unvisited(st.path, r.val)
        THEN LET st1 == [st EXCEPT !.path = Append(@, r.val)]
                 st2 == Classify(st1, t[child].node_type)
                 st3 == DescendRadix(t, bd, child, st2)
                 st4 == [st3 EXCEPT !.path = Front(@)]
             IN  DescendNeighbors(t, bd, child, [it |-> r.it, st |-> st4])
        ELSE DescendNeighbors(t, bd, child, [it |-> r.it, st |-> st])

\* descend_radix: the loop over parent.iter()
DescendChildren(t, bd, lp) ==
    LET r  == TrieIterNext(t, lp.it)
        st == lp.st
    IN  IF ~r.some THEN st
        ELSE LET st1 == [st EXCEPT !.word = Append(@, r.letter)]
                 nit == NeighborIter(bd, Last(st1.path), r.letter)
                 st2 == DescendNeighbors(t, bd, r.child, [it |-> nit, st |-> st1])
                 st3 == [st2 EXCEPT !.word = Front(@)]
             IN  DescendChildren(t, bd, [it |-> r.it, st |-> st3])

DescendRadix(t, bd, parent, st) ==
    LET r == DescendChildren(t, bd, [it |-> TrieIter(parent), st |-> st])
    IN  [r EXCEPT !.restored = @ /\ r.word = st.word /\ r.path = st.path]

\* Faulty variant: the seed's node is classified before the descent.
RECURSIVE SolveSeedsClassifies(_, _, _, _, _)
SolveSeedsClassifies(t, bd, child, letter, lp) ==
    LET r  == IndexIterNext(bd.alpha[letter], lp.it)
        st == lp.st
    IN  IF ~r.some THEN st
        ELSE LET st1 == [st EXCEPT !.path = Append(@, r.val)]
                 st2 == DescendRadix(t, bd, child, Classify(st1, t[child].node_type))
                 st3 == [st2 EXCEPT !.path = Front(@)]
             IN  SolveSeedsClassifies(t, bd, child, letter, [it |-> r.it, st |-> st3])

\* solve_radix: the loop over board.any(i)
RECURSIVE SolveSeeds(_, _, _, _, _)
SolveSeeds(t, bd, child, letter, lp) ==
    LET r  == IndexIterNext(bd.alpha[letter], lp.it)
        st == lp.st
    IN  IF ~r.some THEN st
        ELSE LET st1 == [st EXCEPT !.path = Append(@, r.val)]
                 st2 == DescendRadix(t, bd, child, st1)
                 st3 == [st2 EXCEPT !.path = Front(@)]
             IN  SolveSeeds(t, bd, child, letter, [it |-> r.it, st |-> st3])

\* solve_radix: the loop over root.iter()
RECURSIVE SolveChildren(_, _, _)
SolveChildren(t, bd, lp) ==
    LET r  == TrieIterNext(t, lp.it)
        st == lp.st
    IN  IF ~r.some THEN st
        ELSE LET st1 == [st EXCEPT !.word = Append(@, r.letter)]
                 st2 == SolveSeeds(t, bd, r.child, r.letter, [it |-> IndexIterNew, st |-> st1])
                 st3 == [st2 EXCEPT !.word = Front(@)]
             IN  SolveChildren(t, bd, [it |-> r.it, st |-> st3])

SolveRadix(t, bd) ==
    SolveChildren(t, bd,
        [it |-> TrieIter(<<>>),
         st |-> [word |-> <<>>, path |-> <<>>, words |-> BitSetNew, out |-> <<>>,
                 seen |-> {}, restored |-> TRUE]])

\* par_solve_radix, the closure up to its loop: a worker's buffers and its
\* iterator over board.any(i)
WorkerNew(letter) ==
    [pc |-> "seeds", it |-> IndexIterNew,
     st |-> [word |-> <<letter>>, path |-> <<>>, words |-> BitSetNew, out |-> <<>>,
             seen |-> {}, restored |-> TRUE]]

\* Faulty variant: the seed cell is not popped from the path after the descent.
WorkerSeedKeepsPath(t, bd, child, letter, w) ==
    LET r == IndexIterNext(bd.alpha[letter], w.it)
    IN  IF ~r.some THEN [w EXCEPT !.pc = "done"]
        ELSE LET st1 == [w.st EXCEPT !.path = Append(@, r.val)]
                 st2 == DescendRadix(t, bd, child, st1)
             IN  [w EXCEPT !.it = r.it, !.st = st2]

\* par_solve_radix, one iteration of the closure's loop over board.any(i); the
\* closure returns when the iterator does
WorkerSeed(t, bd, child, letter, w) ==
    LET r == IndexIterNext(bd.alpha[letter], w.it)
    IN  IF ~r.some THEN [w EXCEPT !.pc = "done"]
        ELSE LET st1 == [w.st EXCEPT !.path = Append(@, r.val)]
                 st2 == DescendRadix(t, bd, child, st1)
                 st3 == [st2 EXCEPT !.path = Front(@)]
             IN  [w EXCEPT !.it = r.it, !.st = st3]

----------------------------------------------------------------------------
(* simple_board.rs: SimpleBoggleBoard, and main.rs: solve / descend over it *)

\* a SimpleBoggleBoard: [width, height, cells], cells row-major letter values
SimpleBoard(w, h, g) == [width |-> w, height |-> h, cells |-> g]

\* Faulty variant: the arm of cell 0 has no diagonal candidate.
SimpleCandsNoDiagonal(b, i) ==
    LET w == b.width
        h == b.height
    IN  IF i = 0 THEN << <<1, 0>>, <<0, 1>> >>
        ELSE IF i = w - 1 THEN << <<0, 1>>, <<-1, 1>>, <<-1, 0>> >>
        ELSE IF i = w * (h - 1) THEN << <<0, -1>>, <<1, -1>>, <<1, 0>> >>
        ELSE IF i = w * h - 1 THEN << <<0, -1>>, <<-1, 0>>, <<-1, -1>> >>
        ELSE IF i < w THEN << <<1, 0>>, <<1, 1>>, <<0, 1>>, <<-1, 1>>, <<-1, 0>> >>
        ELSE IF i > w * (h - 1) THEN << <<0, -1>>, <<1, -1>>, <<1, 0>>, <<-1, 0>>, <<-1, -1>> >>
        ELSE IF i % w = 0 THEN << <<0, -1>>, <<1, -1>>, <<1, 0>>, <<1, 1>>, <<0, 1>> >>
        ELSE IF i % w = w - 1 THEN << <<0, -1>>, <<0, 1>>, <<-1, 1>>, <<-1, 0>>, <<-1, -1>> >>
        ELSE << <<0, -1>>, <<1, -1>>, <<1, 0>>, <<1, 1>>, <<0, 1>>, <<-1, 1>>, <<-1, 0>>, <<-1, -1>> >>

\* SimpleBoggleBoard::neighbors, the match on i: the candidate offsets <<dx, dy>>
\* of the first arm that applies
SimpleCands(b, i) ==
    LET w == b.width
        h == b.height
    IN  IF i = 0 THEN << <<1, 0>>, <<1, 1>>, <<0, 1>> >>
        ELSE IF i = w - 1 THEN << <<0, 1>>, <<-1, 1>>, <<-1, 0>> >>
        ELSE IF i = w * (h - 1) THEN << <<0, -1>>, <<1, -1>>, <<1, 0>> >>
        ELSE IF i = w * h - 1 THEN << <<0, -1>>, <<-1, 0>>, <<-1, -1>> >>
        ELSE IF i < w THEN << <<1, 0>>, <<1, 1>>, <<0, 1>>, <<-1, 1>>, <<-1, 0>> >>
        ELSE IF i > w * (h - 1) THEN << <<0, -1>>, <<1, -1>>, <<1, 0>>, <<-1, 0>>, <<-1, -1>> >>
        ELSE IF i % w = 0 THEN << <<0, -1>>, <<1, -1>>, <<1, 0>>, <<1, 1>>, <<0, 1>> >>
        ELSE IF i % w = w - 1 THEN << <<0, -1>>, <<0, 1>>, <<-1, 1>>, <<-1, 0>>, <<-1, -1>> >>
        ELSE << <<0, -1>>, <<1, -1>>, <<1, 0>>, <<1, 1>>, <<0, 1>>, <<-1, 1>>, <<-1, 0>>, <<-1, -1>> >>

\* .filter(|abs_idx| self.cells[*abs_idx] == v).collect(), from candidate k on
RECURSIVE SimpleFilter(_, _, _, _)
SimpleFilter(b, abs, v, k) ==
    IF k > Len(abs) THEN <<>>
    ELSE IF b.cells[abs[k] + 1] = v
    THEN <<abs[k]>> \o SimpleFilter(b, abs, v, k + 1)
    ELSE SimpleFilter(b, abs, v, k + 1)

\* SimpleBoggleBoard::neighbors: the cells i + dx + width * dy that hold v, in
\* the order of the candidates
SimpleNeighbors(b, i, v) ==
    LET cands == SimpleCands(b, i)
        abs   == [k \in 1..Len(cands) |-> i + (cands[k][1] + b.width * cands[k][2])]
    IN  SimpleFilter(b, abs, v, 1)

\* SimpleBoggleBoard::any: the indices of the cells that hold v, ascending
SimpleAny(b, v) ==
    SimpleFilter(b, [k \in 1..Len(b.cells) |-> k - 1], v, 1)

RECURSIVE Descend(_, _, _, _)
RECURSIVE DescendLoopChildren(_, _, _)
RECURSIVE DescendLoopNeighbors(_, _, _, _)

\* descend: the loop over board.neighbors(*path.last().unwrap(), i); lp.it is
\* what is left of the vector
DescendLoopNeighbors(t, b, child, lp) ==
    LET st == lp.st
    IN  IF lp.it = <<>> THEN st
        ELSE IF Unvisited(st.path, Head(lp.it))
        THEN LET st1 == [st EXCEPT !.path = Append(@, Head(lp.it))]
                 st2 == Classify(st1, t[child].node_type)
                 st3 == Descend(t, b, child, st2)
                 st4 == [st3 EXCEPT !.path = Front(@)]
             IN  DescendLoopNeighbors(t, b, child, [it |-> Tail(lp.it), st |-> st4])
        ELSE DescendLoopNeighbors(t, b, child, [it |-> Tail(lp.it), st |-> st])

\* descend: the loop over parent.iter()
DescendLoopChildren(t, b, lp) ==
    LET r  == TrieIterNext(t, lp.it)
        st == lp.st
    IN  IF ~r.some THEN st
        ELSE LET st1 == [st EXCEPT !.word = Append(@, r.letter)]
                 ns  == SimpleNeighbors(b, Last(st1.path), r.letter)
                 st2 == DescendLoopNeighbors(t, b, r.child, [it |-> ns, st |-> st1])
                 st3 == [st2 EXCEPT !.word = Front(@)]
             IN  DescendLoopChildren(t, b, [it |-> r.it, st |-> st3])

Descend(t, b, parent, st) ==
    LET r == DescendLoopChildren(t, b, [it |-> TrieIter(parent), st |-> st])
    IN  [r EXCEPT !.restored = @ /\ r.word = st.word /\ r.path = st.path]

\* solve: the loop over board.any(i)
RECURSIVE SolveLoopSeeds(_, _, _, _)
SolveLoopSeeds(t, b, child, lp) ==
    LET st == lp.st
    IN  IF lp.it = <<>> THEN st
        ELSE LET st1 == [st EXCEPT !.path = Append(@, Head(lp.it))]
                 st2 == Descend(t, b, child, st1)
                 st3 == [st2 EXCEPT !.path = Front(@)]
             IN  SolveLoopSeeds(t, b, child, [it |-> Tail(lp.it), st |-> st3])

\* solve: the loop over root.iter()
RECURSIVE SolveLoopChildren(_, _, _)
SolveLoopChildren(t, b, lp) ==
    LET r  == TrieIterNext(t, lp.it)
        st == lp.st
    IN  IF ~r.some THEN st
        ELSE LET st1 == [st EXCEPT !.word = Append(@, r.letter)]
                 st2 == SolveLoopSeeds(t, b, r.child, [it |-> SimpleAny(b, r.letter), st |-> st1])
                 st3 == [st2 EXCEPT !.word = Front(@)]
             IN  SolveLoopChildren(t, b, [it |-> r.it, st |-> st3])

Solve(t, b) ==
    SolveLoopChildren(t, b,
        [it |-> TrieIter(<<>>),
         st |-> [word |-> <<>>, path |-> <<>>, words |-> BitSetNew, out |-> <<>>,
                 seen |-> {}, restored |-> TRUE]])

----------------------------------------------------------------------------
(* simple_board.rs: SimpleBoggleBoard::read *)

\* str::trim on ASCII text: white space is removed from both ends
WhiteSpace == {9, 10, 11, 12, 13, 32}

RECURSIVE TrimStart(_)
TrimStart(s) == IF s # <<>> /\ Head(s) \in WhiteSpace THEN TrimStart(Tail(s)) ELSE s

RECURSIVE TrimEnd(_)
TrimEnd(s) == IF s # <<>> /\ Last(s) \in WhiteSpace THEN TrimEnd(Front(s)) ELSE s

Trim(s) == TrimEnd(TrimStart(s))

\* what read returns
Ok(b)    == [tag |-> "Ok", board |-> b]
Err(msg) == [tag |-> "Err", msg |-> msg]

\* b - 'a' as u8 underflows for a byte below 'a': a build with overflow checks
\* panics there, a build without them wraps
Underflows(line) == \E k \in 1..Len(line) : line[k] < 97

\* .map(|b| b - 'a' as u8), the u8 wrapping
LineCells(line) == [k \in 1..Len(line) |-> (line[k] - 97) % 256]

\* read: the while loop from line k (1-based) on; checked: the build has
\* overflow checks
RECURSIVE ReadLoop(_, _, _, _, _, _)
ReadLoop(lines, k, first, height, cells, checked) ==
    IF k > Len(lines)
    THEN IF height > 1
         THEN Ok(SimpleBoard(Len(first), height, cells))
         ELSE Err("Board height must be >= 2")
    ELSE LET line == ToLowercase(Trim(lines[k]))
         IN  IF ~IsAlpha(first) THEN Err("Invalid chars")
             ELSE IF Len(line) # Len(first) THEN Err("Invalid line length")
             ELSE IF checked /\ Underflows(line) THEN Panic
             ELSE ReadLoop(lines, k + 1, first, height + 1, cells \o LineCells(line), checked)

\* SimpleBoggleBoard::read
Read(lines, checked) ==
    IF lines = <<>> THEN Err("Empty iterator")
    ELSE LET first == ToLowercase(Trim(lines[1]))
         IN  IF ~IsAlpha(first) THEN Err("Invalid chars")
             ELSE ReadLoop(lines, 2, first, 1, LineCells(first), checked)

----------------------------------------------------------------------------
(* main.rs: the lazy form, DictBasedIterator *)

\* DictBasedIterator::new
DictBasedIteratorNew ==
    [state |-> << [iter |-> TrieIter(<<>>), frontier |-> <<>>] >>, word |-> <<>>]

\* idx_vec_to_string, the loop from index i (0-based)
RECURSIVE IdxVecLoop(_, _)
IdxVecLoop(vec, i) ==
    IF i < Len(vec)
    THEN LET v1 == [vec EXCEPT ![i + 1] = @ + 97]
         IN  IF v1[i + 1] = 113
             THEN IdxVecLoop(SubSeq(v1, 1, i + 1) \o <<117>> \o SubSeq(v1, i + 2, Len(v1)), i + 2)
             ELSE IdxVecLoop(v1, i + 1)
    ELSE vec

IdxVecToString(vec) == IdxVecLoop(vec, 0)

\* next: the seeds of a root frame, board.any(next_letter) mapped to BFSNodes
SeedFrontier(bd, letter) ==
    LET ps == BoardAny(bd, letter)
    IN  [k \in 1..Len(ps) |-> [pos |-> ps[k], ancestors |-> BitSetNew]]

\* Faulty variant: the test of the ancestor set is inverted.
RECURSIVE ExtendNodeVisitedOnly(_, _)
ExtendNodeVisitedOnly(node, nit) ==
    LET r == NeighborIterNext(nit)
    IN  IF ~r.some THEN <<>>
        ELSE IF BitSetGet(node.ancestors, r.val)
        THEN <<[pos |-> r.val, ancestors |-> BitSetAdd(node.ancestors, node.pos)]>>
                 \o ExtendNodeVisitedOnly(node, r.it)
        ELSE ExtendNodeVisitedOnly(node, r.it)

\* Faulty variant: the node's own cell is not added to the cloned ancestor set.
RECURSIVE ExtendNodeForgetsPos(_, _)
ExtendNodeForgetsPos(node, nit) ==
    LET r == NeighborIterNext(nit)
    IN  IF ~r.some THEN <<>>
        ELSE IF ~BitSetGet(node.ancestors, r.val)
        THEN <<[pos |-> r.val, ancestors |-> node.ancestors]>>
                 \o ExtendNodeForgetsPos(node, r.it)
        ELSE ExtendNodeForgetsPos(node, r.it)

\* next: the loop over board.neighbors(bfs_node.pos, next_letter) for one bfs_node;
\* the BFSNodes it pushes to next_frontier, in order
RECURSIVE ExtendNode(_, _)
ExtendNode(node, nit) ==
    LET r == NeighborIterNext(nit)
    IN  IF ~r.some THEN <<>>
        ELSE IF ~BitSetGet(node.ancestors, r.val)
        THEN <<[pos |-> r.val, ancestors |-> BitSetAdd(node.ancestors, node.pos)]>>
                 \o ExtendNode(node, r.it)
        ELSE ExtendNode(node, r.it)

\* Faulty variant: only the first node of the frontier is extended.
ExtendFrontierFirstOnly(bd, frontier, letter, lo, hi) ==
    IF lo > 1 THEN <<>>
    ELSE ExtendNode(frontier[1], NeighborIter(bd, frontier[1].pos, letter))

\* next: the loop over head.frontier.iter(); the BFSNodes pushed for the nodes
\* lo..hi of the frontier, in frontier order (the range is split in two halves)
RECURSIVE ExtendFrontier(_, _, _, _, _)
ExtendFrontier(bd, frontier, letter, lo, hi) ==
    IF lo > hi THEN <<>>
    ELSE IF lo = hi
    THEN ExtendNode(frontier[lo], NeighborIter(bd, frontier[lo].pos, letter))
    ELSE LET mid == (lo + hi) \div 2
         IN  ExtendFrontier(bd, frontier, letter, lo, mid)
                 \o ExtendFrontier(bd, frontier, letter, mid + 1, hi)

\* next: next_frontier
NextFrontier(bd, frontier, letter) ==
    IF Len(frontier) = 0 THEN SeedFrontier(bd, letter)
    ELSE ExtendFrontier(bd, frontier, letter, 1, Len(frontier))

\* Faulty variant: the letter of a word's node is not pushed to the word buffer.
RECURSIVE NextInnerYieldsUnpushed(_, _, _, _, _)
NextInnerYieldsUnpushed(t, bd, head, state, word) ==
    LET r == TrieIterNext(t, head.iter)
        head1 == [head EXCEPT !.iter = r.it]
    IN  IF ~r.some
        THEN [ret |-> FALSE, s |-> <<>>, state |-> state, word |-> word]
        ELSE LET nf == NextFrontier(bd, head1.frontier, r.letter)
             IN  IF Len(nf) > 0
                 THEN LET next_head == [iter |-> TrieIter(r.child), frontier |-> nf]
                          state1 == Append(state, head1)
                      IN  IF IsWord(t[r.child].node_type)
                          THEN [ret |-> TRUE, s |-> IdxVecToString(Append(word, r.letter)),
                                state |-> Append(state1, next_head), word |-> word]
                          ELSE NextInnerYieldsUnpushed(t, bd, next_head, state1,
                                                       Append(word, r.letter))
                 ELSE NextInnerYieldsUnpushed(t, bd, head1, state, word)

\* next: the inner loop, while let Some((trie, next_letter)) = head.iter.next().
\* Result: [ret, s, state, word]; ret is TRUE when the call returns Some(s).
RECURSIVE NextInner(_, _, _, _, _)
NextInner(t, bd, head, state, word) ==
    LET r == TrieIterNext(t, head.iter)
        head1 == [head EXCEPT !.iter = r.it]
    IN  IF ~r.some
        THEN [ret |-> FALSE, s |-> <<>>, state |-> state, word |-> word]
        ELSE LET nf == NextFrontier(bd, head1.frontier, r.letter)
             IN  IF Len(nf) > 0
                 THEN LET next_head == [iter |-> TrieIter(r.child), frontier |-> nf]
                          state1 == Append(state, head1)
                          word1  == Append(word, r.letter)
                      IN  IF IsWord(t[r.child].node_type)
                          THEN [ret |-> TRUE, s |-> IdxVecToString(word1),
                                state |-> Append(state1, next_head), word |-> word1]
                          ELSE NextInner(t, bd, next_head, state1, word1)
                 ELSE NextInner(t, bd, head1, state, word)

\* Faulty variant: the letter of an exhausted frame is left in the word buffer.
RECURSIVE NextOuterKeepsWord(_, _, _, _)
NextOuterKeepsWord(t, bd, state, word) ==
    IF state = <<>>
    THEN [ret |-> FALSE, s |-> <<>>, state |-> state, word |-> word]
    ELSE LET r == NextInner(t, bd, Last(state), Front(state), word)
         IN  IF r.ret THEN r
             ELSE NextOuterKeepsWord(t, bd, r.state, r.word)

\* next: the outer loop, while let Some(mut head) = self.state.pop()
RECURSIVE NextOuter(_, _, _, _)
NextOuter(t, bd, state, word) ==
    IF state = <<>>
    THEN [ret |-> FALSE, s |-> <<>>, state |-> state, word |-> word]
    ELSE LET r == NextInner(t, bd, Last(state), Front(state), word)
         IN  IF r.ret THEN r
             ELSE NextOuter(t, bd, r.state,
                            IF r.word = <<>> THEN <<>> ELSE Front(r.word))

\* DictBasedIterator::next
IterNext(t, bd, it) == NextOuter(t, bd, it.state, it.word)

----------------------------------------------------------------------------
(* Bounds and inputs *)

MaxInserts == 3     \* Trie::insert calls in a run of SpecTrie
MaxStrLen  == 2     \* length of the strings passed to Trie::insert
MaxId      == 1     \* word ids are 0..MaxId
MaxCells   == 9     \* boards of SpecBoard have at most MaxCells cells
MaxWords   == 2     \* inserts that build a trie searched in Spec
MaxWordLen == 3     \* length of the words of a trie searched in Spec
MaxLines   == 3     \* lines of an input of SimpleBoggleBoard::read
MaxLineLen == 2     \* length of a line of that input

Ids == 0..MaxId

\* 'A', '[', 'a', 'b': both cases of a letter, a second letter, and a character
\* between the two alphabetic ranges
TrieChars   == {65, 91, 97, 98}
TrieStrings == SeqsUpTo(TrieChars, MaxStrLen) \ {<<>>}

\* letter values a board of SpecBoard holds: the first and the last of the alphabet
BoardLetters == {0, ALPHABET_SIZE - 1}

\* letters of the searched tries and boards: 'q' and 'u' (as letter values)
SearchLetters == {16, 20}
SearchWords   == SeqsUpTo({c + 97 : c \in SearchLetters}, MaxWordLen) \ {<<>>}
SearchDims    == {<<2, 2>>, <<3, 2>>}

\* the example of the specification: rows "at" / "oy", dictionary at = 0, ay = 1
ExampleGrid == <<0, 19, 14, 24>>
ExampleDict == << <<<<97, 116>>, 0>>, <<<<97, 121>>, 1>> >>

\* the trie after the successful inserts d[k] = <<word, id>>, in order
RECURSIVE BuildTrie(_, _)
BuildTrie(d, k) ==
    IF k = 0 THEN TrieNew ELSE TrieInsert(BuildTrie(d, k - 1), d[k][1], d[k][2]).trie

\* the tries that at most n successful inserts of SearchWords build
RECURSIVE TriesBuiltBy(_)
TriesBuiltBy(n) ==
    IF n = 0 THEN {TrieNew}
    ELSE LET fewer == TriesBuiltBy(n - 1)
         IN  fewer \cup {TrieInsert(t, w, id).trie : t \in fewer, w \in SearchWords, id \in Ids}

Grids(w, h, L) == [1..(w * h) -> L]

ExampleTrie == BuildTrie(ExampleDict, Len(ExampleDict))

----------------------------------------------------------------------------
(* States outside the part a specification exercises *)

NoCall     == [s |-> <<>>, id |-> 0, ret |-> TRUE]
NoEager    == [word |-> <<>>, path |-> <<>>, words |-> BitSetNew, out |-> <<>>,
               seen |-> {}, restored |-> TRUE]
NoIterator == [state |-> <<>>, word |-> <<>>]
NoPar      == [forest |-> <<>>, workers |-> <<>>, out |-> <<>>]

TrieIdle   == trie = TrieNew /\ lastCall = NoCall /\ inserted = <<>> /\ nCalls = 0
BoardIdle  == grid = <<>> /\ board = BoardNew(0, 0) /\ fromIdx = 0 /\ panicked = FALSE
SearchIdle ==
    /\ pc = "idle" /\ eager = NoEager /\ naive = NoEager /\ iter = NoIterator
    /\ lazyOut = <<>> /\ calls = 0
    /\ par = NoPar
NoBitCall  == [op |-> "none", i |-> 0]
BitsIdle   == bits = BitSetNew /\ bits32 = BitSet32New /\ bitCall = NoBitCall
NoRead     == [tag |-> "none"]
ReadIdle   == reader = [lines |-> <<>>, res |-> NoRead]

----------------------------------------------------------------------------
(* SpecTrie: a new trie and a sequence of Trie::insert calls *)

InitTrie == TrieIdle /\ BoardIdle /\ SearchIdle /\ BitsIdle /\ ReadIdle

InsertCall ==
    /\ nCalls < MaxInserts
    /\ \E s \in TrieStrings, id \in Ids :
          LET r == TrieInsert(trie, s, id)
          IN  /\ trie' = r.trie
              /\ lastCall' = [s |-> s, id |-> id, ret |-> r.ret]
              /\ inserted' =
                    IF r.ret
                    THEN [w \in DOMAIN inserted \cup {ToLowercase(s)} |->
                             IF w = ToLowercase(s) THEN id ELSE inserted[w]]
                    ELSE inserted
    /\ nCalls' = nCalls + 1
    /\ UNCHANGED <<boardVars, searchVars, bitVars, reader>>

NextTrie == InsertCall

SpecTrie == InitTrie /\ [][NextTrie]_vars

----------------------------------------------------------------------------
(* SpecBoard: RadixBoggleBoard::from over a source board of any size, one   *)
(* RadixBoggleBoard::set per step; grid holds the source cells read so far *)

InitBoard ==
    /\ TrieIdle /\ SearchIdle /\ BitsIdle /\ ReadIdle
    /\ \E w \in 1..MaxCells, h \in 1..MaxCells : w * h <= MaxCells /\ board = BoardNew(w, h)
    /\ grid = <<>> /\ fromIdx = 0 /\ panicked = FALSE

FromStep ==
    /\ ~panicked
    /\ fromIdx < board.width * board.height
    /\ \E v \in BoardLetters :
          LET r == BoardSet(board, fromIdx, v)
          IN  /\ board' = r.board
              /\ panicked' = r.panicked
              /\ grid' = Append(grid, v)
              /\ fromIdx' = IF r.panicked THEN fromIdx ELSE fromIdx + 1
    /\ UNCHANGED <<trieVars, searchVars, bitVars, reader>>

NextBoard == FromStep

SpecBoard == InitBoard /\ [][NextBoard]_vars

\* from() has returned
Built == ~panicked /\ fromIdx = board.width * board.height /\ fromIdx > 0

----------------------------------------------------------------------------
(* Spec: a built trie and a built board of at least 2 x 2 cells, then       *)
(* solve_radix, DictBasedIterator::new, and DictBasedIterator::next until  *)
(* and after it returns None                                               *)

InitInput(t, w, h, g) ==
    /\ trie = t /\ lastCall = NoCall /\ inserted = <<>> /\ nCalls = 0
    /\ grid = g
    /\ LET r == BoardFrom(w, h, g) IN board = r.board /\ panicked = r.panicked
    /\ fromIdx = w * h
    /\ pc = "solve_radix" /\ eager = NoEager /\ naive = NoEager /\ iter = NoIterator
    /\ lazyOut = <<>>
    /\ calls = 0 /\ par = NoPar
    /\ BitsIdle /\ ReadIdle

Init ==
    \/ InitInput(ExampleTrie, 2, 2, ExampleGrid)
    \/ \E t \in TriesBuiltBy(MaxWords), d \in SearchDims :
          \E g \in Grids(d[1], d[2], SearchLetters) : InitInput(t, d[1], d[2], g)

SolveRadixCall ==
    /\ pc = "solve_radix"
    /\ eager' = SolveRadix(trie, board)
    /\ pc' = "new"
    /\ UNCHANGED <<trieVars, boardVars, iter, lazyOut, calls, par, naive, bitVars, reader>>

IterNewCall ==
    /\ pc = "new"
    /\ iter' = DictBasedIteratorNew
    /\ pc' = "next"
    /\ UNCHANGED <<trieVars, boardVars, eager, lazyOut, calls, par, naive, bitVars, reader>>

\* one call of next(); once it has returned None, pc is "exhausted"
NextCall ==
    /\ pc \in {"next", "exhausted"}
    /\ LET r == IterNext(trie, board, iter)
       IN  /\ iter' = [state |-> r.state, word |-> r.word]
           /\ lazyOut' = IF r.ret THEN Append(lazyOut, r.s) ELSE lazyOut
           /\ pc' = IF r.ret THEN "next" ELSE "exhausted"
    /\ calls' = IF pc = "next" THEN calls + 1 ELSE calls
    /\ UNCHANGED <<trieVars, boardVars, eager, par, naive, bitVars, reader>>

Next == SolveRadixCall \/ IterNewCall \/ NextCall

Spec == Init /\ [][Next]_vars

\* FairSpec: the iterator alone, as main runs it, on the same tries and boards:
\* DictBasedIterator::new, then the for loop that calls next until it returns None
InitFair ==
    /\ \E t \in TriesBuiltBy(MaxWords), d \in SearchDims :
          \E g \in Grids(d[1], d[2], SearchLetters) :
              /\ trie = t /\ grid = g
              /\ LET r == BoardFrom(d[1], d[2], g)
                 IN  board = r.board /\ panicked = r.panicked
              /\ fromIdx = Len(g)
    /\ lastCall = NoCall /\ inserted = <<>> /\ nCalls = 0
    /\ pc = "new" /\ eager = NoEager /\ naive = NoEager /\ iter = NoIterator
    /\ lazyOut = <<>>
    /\ calls = 0 /\ par = NoPar
    /\ BitsIdle /\ ReadIdle

NextFair == IterNewCall \/ NextCall

\* the for loop makes another call of next as long as the last returned Some
LoopCalls == pc = "next" /\ calls' = calls + 1

FairSpec == InitFair /\ [][NextFair]_vars /\ WF_pc(IterNewCall) /\ WF_calls(LoopCalls)

----------------------------------------------------------------------------
(* SpecRefine: a built trie, a SimpleBoggleBoard and the RadixBoggleBoard   *)
(* built from it, then solve over the first and solve_radix over the second *)

\* boards with left and right edge cells, and with an inner cell
RefineDims == {<<2, 2>>, <<2, 3>>}
InnerDim   == <<3, 3>>

InitRefineInput(t, w, h, g) ==
    /\ trie = t /\ lastCall = NoCall /\ inserted = <<>> /\ nCalls = 0
    /\ grid = g
    /\ LET r == BoardFrom(w, h, g) IN board = r.board /\ panicked = r.panicked
    /\ fromIdx = w * h
    /\ pc = "solve" /\ eager = NoEager /\ naive = NoEager /\ iter = NoIterator
    /\ lazyOut = <<>> /\ calls = 0 /\ par = NoPar
    /\ BitsIdle /\ ReadIdle

InitRefine ==
    \/ \E t \in TriesBuiltBy(MaxWords), d \in RefineDims :
          \E g \in Grids(d[1], d[2], SearchLetters) : InitRefineInput(t, d[1], d[2], g)
    \/ \E t \in TriesBuiltBy(1) :
          \E g \in Grids(InnerDim[1], InnerDim[2], SearchLetters) :
              InitRefineInput(t, InnerDim[1], InnerDim[2], g)

\* the board solve runs over: the source of RadixBoggleBoard::from
Simple == SimpleBoard(board.width, board.height, grid)

SolveCall ==
    /\ pc = "solve"
    /\ naive' = Solve(trie, Simple)
    /\ pc' = "solve_radix"
    /\ UNCHANGED <<trieVars, boardVars, eager, iter, lazyOut, calls, par, bitVars, reader>>

NextRefine == SolveCall \/ SolveRadixCall

SpecRefine == InitRefine /\ [][NextRefine]_vars

----------------------------------------------------------------------------
(* SpecRead: SimpleBoggleBoard::read on an iterator over a few short lines *)

\* ' ', '1', 'A', 'b', '{': white space, a byte below 'a', both cases of a
\* letter, and a byte above 'z'
ReadChars == {32, 49, 65, 98, 123}
ReadLines == SeqsUpTo(SeqsUpTo(ReadChars, MaxLineLen), MaxLines)

InitRead ==
    /\ TrieIdle /\ BoardIdle /\ SearchIdle /\ BitsIdle
    /\ \E ls \in ReadLines : reader = [lines |-> ls, res |-> NoRead]

ReadCall ==
    /\ reader.res = NoRead
    /\ \E checked \in BOOLEAN : reader' = [reader EXCEPT !.res = Read(reader.lines, checked)]
    /\ UNCHANGED <<trieVars, boardVars, searchVars, bitVars>>

NextRead == ReadCall

SpecRead == InitRead /\ [][NextRead]_vars

----------------------------------------------------------------------------
(* SpecPar: a built trie and a built 2 x 2 board, then par_solve_radix: one  *)
(* worker per child of the root, run in any interleaving; a step of a       *)
(* worker is the start of its closure or one iteration of its loop over    *)
(* board.any(i), whose println! calls append to the shared output          *)

NotStarted == [pc |-> "new", it |-> IndexIterNew, st |-> NoEager]

InitPar ==
    /\ \E t \in TriesBuiltBy(MaxWords), g \in Grids(2, 2, SearchLetters) :
          /\ trie = t /\ grid = g
          /\ LET r == BoardFrom(2, 2, g) IN board = r.board /\ panicked = r.panicked
    /\ lastCall = NoCall /\ inserted = <<>> /\ nCalls = 0
    /\ fromIdx = 4
    /\ pc = "par_solve_radix" /\ eager = NoEager /\ naive = NoEager /\ iter = NoIterator
    /\ lazyOut = <<>>
    /\ calls = 0 /\ par = NoPar
    /\ BitsIdle /\ ReadIdle

\* forest = root.iter().collect()
CollectForest ==
    /\ pc = "par_solve_radix"
    /\ LET forest == TrieIterDrain(trie, TrieIter(<<>>))
       IN  par' = [forest  |-> forest,
                   workers |-> [k \in 1..Len(forest) |-> NotStarted],
                   out     |-> <<>>]
    /\ pc' = "for_each"
    /\ UNCHANGED <<trieVars, boardVars, eager, iter, lazyOut, calls, naive, bitVars, reader>>

WorkerStart(k) ==
    /\ pc = "for_each"
    /\ par.workers[k].pc = "new"
    /\ par' = [par EXCEPT !.workers[k] = WorkerNew(par.forest[k][2])]
    /\ UNCHANGED <<trieVars, boardVars, pc, eager, iter, lazyOut, calls, naive, bitVars, reader>>

WorkerStep(k) ==
    /\ pc = "for_each"
    /\ par.workers[k].pc = "seeds"
    /\ LET w  == par.workers[k]
           w1 == WorkerSeed(trie, board, par.forest[k][1], par.forest[k][2], w)
       IN  par' = [par EXCEPT !.workers[k] = w1,
                              !.out = @ \o SubSeq(w1.st.out, Len(w.st.out) + 1, Len(w1.st.out))]
    /\ UNCHANGED <<trieVars, boardVars, pc, eager, iter, lazyOut, calls, naive, bitVars, reader>>

\* for_each returns once every closure has
ForEachReturn ==
    /\ pc = "for_each"
    /\ \A k \in 1..Len(par.workers) : par.workers[k].pc = "done"
    /\ pc' = "joined"
    /\ UNCHANGED <<trieVars, boardVars, eager, iter, lazyOut, calls, par, naive, bitVars, reader>>

NextPar ==
    \/ CollectForest
    \/ \E k \in 1..Len(par.workers) : WorkerStart(k)
    \/ \E k \in 1..Len(par.workers) : WorkerStep(k)
    \/ ForEachReturn

SpecPar == InitPar /\ [][NextPar]_vars

----------------------------------------------------------------------------
(* SpecBitSet: a new BitSet and a sequence of add, remove and clear calls  *)

BitIndices == {0, 1, 63, 64, 127, 130}

InitBitSet == TrieIdle /\ BoardIdle /\ SearchIdle /\ BitsIdle /\ ReadIdle

AddCall ==
    /\ \E i \in BitIndices :
          /\ bits' = BitSetAdd(bits, i)
          /\ bitCall' = [op |-> "add", i |-> i]
    /\ UNCHANGED <<trieVars, boardVars, searchVars, bits32, reader>>

RemoveCall ==
    /\ \E i \in BitIndices :
          /\ bits' = BitSetRemove(bits, i)
          /\ bitCall' = [op |-> "remove", i |-> i]
    /\ UNCHANGED <<trieVars, boardVars, searchVars, bits32, reader>>

ClearCall ==
    /\ bits' = BitSetClear(bits)
    /\ bitCall' = [op |-> "clear", i |-> 0]
    /\ UNCHANGED <<trieVars, boardVars, searchVars, bits32, reader>>

NextBitSet == AddCall \/ RemoveCall \/ ClearCall

SpecBitSet == InitBitSet /\ [][NextBitSet]_vars

----------------------------------------------------------------------------
(* SpecBitSet32: a new BitSet32 and a sequence of add, remove, set and     *)
(* clear calls with indices below 32                                       *)

Bit32Indices == {0, 1, 15, 16, 30, 31}

Add32Call ==
    /\ \E i \in Bit32Indices :
          /\ bits32' = BitSet32Add(bits32, i)
          /\ bitCall' = [op |-> "add", i |-> i]
    /\ UNCHANGED <<trieVars, boardVars, searchVars, bits, reader>>

Remove32Call ==
    /\ \E i \in Bit32Indices :
          /\ bits32' = BitSet32Remove(bits32, i)
          /\ bitCall' = [op |-> "remove", i |-> i]
    /\ UNCHANGED <<trieVars, boardVars, searchVars, bits, reader>>

Set32Call ==
    /\ \E i \in Bit32Indices, v \in BOOLEAN :
          /\ bits32' = BitSet32Set(bits32, i, v)
          /\ bitCall' = [op |-> IF v THEN "set true" ELSE "set false", i |-> i]
    /\ UNCHANGED <<trieVars, boardVars, searchVars, bits, reader>>

Clear32Call ==
    /\ bits32' = BitSet32Clear(bits32)
    /\ bitCall' = [op |-> "clear", i |-> 0]
    /\ UNCHANGED <<trieVars, boardVars, searchVars, bits, reader>>

NextBitSet32 == Add32Call \/ Remove32Call \/ Set32Call \/ Clear32Call

SpecBitSet32 == InitBitSet /\ [][NextBitSet32]_vars

----------------------------------------------------------------------------
(* What the claims speak of, defined from the grid and the trie's word     *)
(* nodes alone, not from the board index or the search.                    *)

Abs(x) == IF x < 0 THEN -x ELSE x

\* cells c and d (0-based, row-major, rows of w cells) are 8-neighbours
Adjacent(w, c, d) ==
    /\ c # d
    /\ Abs((c % w) - (d % w)) <= 1
    /\ Abs((c \div w) - (d \div w)) <= 1

\* the simple paths on grid g that spell the letter values ls[1..n]
RECURSIVE SimplePaths(_, _, _, _)
SimplePaths(g, w, ls, n) ==
    IF n = 0 THEN {<<>>}
    ELSE {Append(p, c) :
            <<p, c>> \in {<<q, d>> \in SimplePaths(g, w, ls, n - 1) \X (0..(Len(g) - 1)) :
                             /\ g[d + 1] = ls[n]
                             /\ d \notin Range(q)
                             /\ q = <<>> \/ Adjacent(w, Last(q), d)}}

HasSimplePath(ls) == SimplePaths(grid, board.width, ls, Len(ls)) # {}

\* the words of the trie, as sequences of letter values
TrieWords == {p \in DOMAIN trie : IsWord(trie[p].node_type)}

\* the text of a word: one character per letter value, "qu" for the letter q
RECURSIVE Spell(_)
Spell(ls) ==
    IF ls = <<>> THEN <<>>
    ELSE (IF ls[1] = 16 THEN <<113, 117>> ELSE <<ls[1] + 97>>) \o Spell(Tail(ls))

NoDuplicates(s) == \A j, k \in 1..Len(s) : j # k => s[j] # s[k]

DistinctIds == \A p, q \in TrieWords : p # q => trie[p].node_type.id # trie[q].node_type.id

Exhausted == pc = "exhausted"

----------------------------------------------------------------------------
(* Claims on the search (checked under Spec) *)

\* C1 (as stated): for every trie built by insert and every board of at least
\* 2 x 2 cells, the set of words solve_radix prints equals the set of words
\* DictBasedIterator yields until it returns None.
C1_EagerEqualsLazy == Exhausted => Range(eager.out) = Range(lazyOut)

\* C1 (amended): the two sets are equal when every word of the trie has at
\* least two letters and distinct words carry distinct ids.
C1_EagerEqualsLazyLongDistinct ==
    (Exhausted /\ DistinctIds /\ \A p \in TrieWords : Len(p) >= 2)
        => Range(eager.out) = Range(lazyOut)

\* a finished solve of a trie of two distinct long words with distinct ids, both found
C1_Witness ==
    /\ Exhausted /\ DistinctIds
    /\ \A p \in TrieWords : Len(p) >= 2
    /\ Cardinality(TrieWords) = 2
    /\ Cardinality(Range(lazyOut)) = 2

\* C2: every word either form emits is the text of a word of the trie that has a
\* simple path on the board: one cell per letter, cell k holding letter k,
\* consecutive cells 8-neighbours, no cell twice.
C2_EmittedHavePaths ==
    \A s \in Range(eager.out) \cup Range(lazyOut) :
        \E p \in TrieWords : Spell(p) = s /\ HasSimplePath(p)

\* both forms have emitted a three-letter word on a 3 x 2 board, while another
\* word of the trie has no simple path
C2_Witness ==
    /\ Exhausted
    /\ board.width = 3
    /\ \E p \in TrieWords : Len(p) = 3 /\ Spell(p) \in Range(eager.out) \cap Range(lazyOut)
    /\ \E p \in TrieWords : ~HasSimplePath(p)

\* C3: once DictBasedIterator has returned None it has yielded every word of the
\* trie, of any length >= 1, that has a simple path on the board.
C3_LazyComplete ==
    Exhausted => \A p \in TrieWords : HasSimplePath(p) => Spell(p) \in Range(lazyOut)

\* the iterator is exhausted after yielding a one-letter word and a three-letter word
C3_Witness ==
    /\ Exhausted
    /\ \E p, q \in TrieWords :
          /\ Len(p) = 1 /\ Len(q) = 3
          /\ Spell(p) \in Range(lazyOut) /\ Spell(q) \in Range(lazyOut)

\* C4: when distinct words of the trie carry distinct ids, no word is emitted
\* twice within one solve: not by solve_radix, although several paths may spell
\* the word, and not by DictBasedIterator.
C4_NoWordTwice == DistinctIds => NoDuplicates(eager.out) /\ NoDuplicates(lazyOut)

\* a finished solve in which a word spelled by several paths was emitted by both forms
C4_Witness ==
    /\ Exhausted /\ DistinctIds
    /\ \E p \in TrieWords :
          /\ Cardinality(SimplePaths(grid, board.width, p, Len(p))) >= 2
          /\ Spell(p) \in Range(eager.out) \cap Range(lazyOut)

IsExample == trie = ExampleTrie /\ grid = ExampleGrid /\ board.width = 2

\* C5 (as stated): on the board "at" / "oy" with the dictionary at = 0, ay = 1 the
\* search, in either form, yields exactly {"at"}.
C5_ExampleOnlyAt ==
    /\ (IsExample /\ pc # "solve_radix") => Range(eager.out) = {<<97, 116>>}
    /\ (IsExample /\ Exhausted) => Range(lazyOut) = {<<97, 116>>}

\* C5 (amended): on that board the search, in either form, yields exactly
\* {"at", "ay"}: cells 0 (a) and 3 (y) are diagonal neighbours.
C5_ExampleAtAndAy ==
    /\ (IsExample /\ pc # "solve_radix") => Range(eager.out) = {<<97, 116>>, <<97, 121>>}
    /\ (IsExample /\ Exhausted) => Range(lazyOut) = {<<97, 116>>, <<97, 121>>}

C5_Witness == IsExample /\ Exhausted /\ Len(lazyOut) = 2 /\ Len(eager.out) = 2

----------------------------------------------------------------------------
(* Claims on the board (checked under SpecBoard) *)

Cells == 0..(board.width * board.height - 1)

\* neighbors(c, v) yields exactly the 8-neighbours of c that hold v, each once
NeighborsExact ==
    \A c \in Cells, v \in LetterValues :
        LET s == BoardNeighbors(board, c, v)
        IN  /\ NoDuplicates(s)
            /\ Range(s) = {d \in Cells : Adjacent(board.width, c, d) /\ grid[d + 1] = v}

\* C6 (as stated): for every grid of width >= 1 and height >= 1, construction never
\* indexes a cell outside the grid, and once every cell has been set, neighbors(c, v)
\* yields exactly the cells adjacent to c that hold v, each once.
C6_NeighborsExactFrom1x1 == ~panicked /\ (Built => NeighborsExact)

\* The same for grids of width >= 2 and height >= 2, where the code does satisfy it.
BoardIndexExactFrom2x2 ==
    (board.width >= 2 /\ board.height >= 2) => ~panicked /\ (Built => NeighborsExact)

\* C7: after RadixBoggleBoard::from, any(v) yields exactly the indices of the cells
\* holding v, in strictly ascending order; as a cell holds one letter, every cell
\* index is then yielded for exactly one letter. (any only reads the board, so a
\* second call starts from the same bits.)
C7_AnyExact ==
    Built =>
        \A v \in LetterValues :
            LET s == BoardAny(board, v)
            IN  /\ Range(s) = {c \in Cells : grid[c + 1] = v}
                /\ \A k \in 1..(Len(s) - 1) : s[k] < s[k + 1]

\* a built 3 x 3 board on which one letter is held by neighbouring cells and by the last cell
C7_Witness ==
    /\ Built
    /\ board.width = 3 /\ board.height = 3
    /\ \E v \in LetterValues : {0, 1, 8} \subseteq Range(BoardAny(board, v))

----------------------------------------------------------------------------
(* Claims on the trie (checked under SpecTrie) *)

NonAlphabetic(s) == \E k \in 1..Len(s) : s[k] \notin (65..90) \cup (97..122)

\* s, whatever its case, is a word passed to a successful insert
WasInserted(s) == ~NonAlphabetic(s) /\ ToLowercase(s) \in DOMAIN inserted

\* s is a proper prefix of a word passed to a successful insert
IsProperPrefixOfInserted(s) ==
    \E w \in DOMAIN inserted :
        Len(w) > Len(s) /\ SubSeq(w, 1, Len(s)) = ToLowercase(s)

\* C8: after any sequence of inserts, every inserted word w has contains(w) ==
\* Some(Word(k)), k the id of the most recent successful insert of that word (words
\* are identified as the trie does, ignoring case), and every proper non-empty
\* prefix of w has Some(Prefix) or Some(Word(_)). So inserting a longer word through
\* a word node leaves the shorter word's id as it was.
C8_InsertedAreWords ==
    \A s \in TrieStrings :
        WasInserted(s) =>
            /\ Contains(trie, s) = Some(Word(inserted[ToLowercase(s)]))
            /\ \A n \in 1..(Len(s) - 1) :
                  Contains(trie, SubSeq(s, 1, n)) \in {Some(Prefix)} \cup {Some(Word(k)) : k \in Ids}

\* "a", then "ab" under another id through the word node of "a"
C8_Witness ==
    /\ nCalls = 2
    /\ ToLowercase(lastCall.s) = <<97, 98>>
    /\ <<97>> \in DOMAIN inserted
    /\ inserted[<<97>>] # inserted[<<97, 98>>]
    /\ Contains(trie, <<97>>) = Some(Word(inserted[<<97>>]))

\* C9: contains(s) is Some(Word(_)) only if s, ignoring case, was passed to a
\* successful insert; a string that was not gets Some(Prefix) when it is a proper
\* prefix of an inserted word and None otherwise.
C9_WordsWereInserted ==
    \A s \in TrieStrings :
        ~WasInserted(s) =>
            Contains(trie, s) =
                IF ~NonAlphabetic(s) /\ IsProperPrefixOfInserted(s) THEN Some(Prefix) ELSE None

\* "ab" was inserted and "a" was not: contains("a") is Some(Prefix), contains("b") None
C9_Witness ==
    /\ <<97, 98>> \in DOMAIN inserted
    /\ <<97>> \notin DOMAIN inserted
    /\ Contains(trie, <<97>>) = Some(Prefix)
    /\ Contains(trie, <<98>>) = None

\* C10, in every state: contains(s) of a string with a character outside a-z / A-Z
\* is None, and contains never indexes outside a node's children.
C10_ContainsRejects ==
    \A s \in TrieStrings :
        /\ NonAlphabetic(s) => Contains(trie, s) = None
        /\ Contains(trie, s) # Panic

\* C10, in every step: an insert of such a string returns false and leaves every
\* node, child-presence bit and classification of the trie as it was.
C10_InsertRejects ==
    (nCalls' = nCalls + 1 /\ NonAlphabetic(lastCall'.s))
        => lastCall'.ret = FALSE /\ trie' = trie

\* C10: Trie::insert(s, id) with s containing a character outside a-z / A-Z returns
\* false and leaves the trie unchanged, and contains(s) for such s returns None
\* without failing.
C10_NonAlphabeticRejected == [](C10_ContainsRejects) /\ [][C10_InsertRejects]_vars

\* an insert of "a[" has just been refused by a trie that holds the word "a"
C10_Witness ==
    /\ lastCall.s = <<97, 91>>
    /\ lastCall.ret = FALSE
    /\ <<97>> \in DOMAIN inserted

\* the node an insert of s ends at: the letter values of s, lower-cased
LetterPath(s) == [k \in 1..Len(s) |-> AsciiByteToIdx(ToLowercase(s)[k])]

\* the last call was a successful insert that ended at node p
InsertEndedAt(p) == lastCall'.ret /\ nCalls' = nCalls + 1 /\ LetterPath(lastCall'.s) = p

\* C11 (as stated), in every step: a node's classification changes only from
\* Prefix to Word(id), at the node the insert ends at; a Word(id) node never
\* changes again.
C11_StepPrefixToWordOnly ==
    \A p \in DOMAIN trie :
        /\ p \in DOMAIN trie'
        /\ trie'[p].node_type # trie[p].node_type
              => /\ trie[p].node_type = Prefix
                 /\ IsWord(trie'[p].node_type)
                 /\ InsertEndedAt(p)

\* C11 (as stated): over any sequence of inserts a node's classification changes at
\* most once, from Prefix to Word(id), and a Word(id) node never changes again.
C11_ClassifiedOnce == [][C11_StepPrefixToWordOnly]_vars

\* C11 (amended), in every step: a node's classification changes only at the node
\* a successful insert ends at, and only to Word(id) of that insert, from Prefix or
\* from Word of another id; no node goes back from Word to Prefix and no node is
\* removed.
C11_StepOnlyEndNodeToWord ==
    \A p \in DOMAIN trie :
        /\ p \in DOMAIN trie'
        /\ trie'[p].node_type # trie[p].node_type
              => /\ trie'[p].node_type = Word(lastCall'.id)
                 /\ InsertEndedAt(p)

\* C11 (amended): over any sequence of inserts a node's classification changes only
\* when a successful insert ends at it, to Word(id) of that insert (from Prefix, or
\* from Word of an earlier id: last write wins), and never back to Prefix.
C11_OnlyEndNodeBecomesWord == [][C11_StepOnlyEndNodeToWord]_vars

\* "ab" and then "a": the node of "a", a Prefix after the first insert, is a Word
\* after the second, and the node of "ab" is the Word it was
C11_Witness ==
    /\ nCalls = 2
    /\ LetterPath(lastCall.s) = <<0>> /\ lastCall.ret
    /\ DOMAIN inserted = {<<97>>, <<97, 98>>}
    /\ trie[<<0>>].node_type = Word(lastCall.id)
    /\ trie[<<0, 1>>].node_type = Word(inserted[<<97, 98>>])

\* s and t are alphabetic and equal after ASCII lower-casing
SameIgnoringCase(s, t) ==
    ~NonAlphabetic(s) /\ ~NonAlphabetic(t) /\ ToLowercase(s) = ToLowercase(t)

\* C12, after insert(s, k): contains(t) is Some(Word(k)) for every t equal to s
\* after lower-casing.
C12_ContainsIgnoresCase ==
    (nCalls > 0 /\ lastCall.ret) =>
        \A t \in TrieStrings :
            SameIgnoringCase(lastCall.s, t) => Contains(trie, t) = Some(Word(lastCall.id))

\* C12, in every step: an insert of t after an insert of s equal to it after
\* lower-casing ends at the node the insert of s ended at; it creates no node and
\* changes nothing but that node's id.
C12_InsertReachesSameNode ==
    (nCalls > 0 /\ lastCall.ret /\ nCalls' = nCalls + 1
        /\ SameIgnoringCase(lastCall.s, lastCall'.s))
        => /\ lastCall'.ret
           /\ LetterPath(lastCall'.s) = LetterPath(lastCall.s)
           /\ LetterPath(lastCall.s) \in DOMAIN trie
           /\ trie' = [trie EXCEPT ![LetterPath(lastCall.s)].node_type = Word(lastCall'.id)]

\* C12: insert and contains are case-insensitive: after insert(s, k), contains(t) is
\* Some(Word(k)) for every alphabetic t equal to s after ASCII lower-casing, and
\* inserting s and then t reaches the same trie node.
C12_CaseInsensitive == [](C12_ContainsIgnoresCase) /\ [][C12_InsertReachesSameNode]_vars

\* "Ab" has just been inserted into a trie of three nodes, and the differently
\* cased "ab" is reported as the word with the id of that insert
C12_Witness ==
    /\ lastCall.s = <<65, 98>> /\ lastCall.ret
    /\ DOMAIN trie = {<<>>, <<0>>, <<0, 1>>}
    /\ Contains(trie, <<97, 98>>) = Some(Word(lastCall.id))

\* the slots of node p's children array that hold a child
PresentChildren(p) == {i \in 0..(ALPHABET_SIZE - 1) : Append(p, i) \in DOMAIN trie}

\* C13: in every node of the trie, after any sequence of inserts, bit i of child_set
\* is set if and only if children[i] is present, and Trie::iter on the node yields
\* exactly the present children, each once, paired with its letter value, in
\* strictly ascending letter order.
C13_ChildSetMirrorsChildren ==
    \A p \in DOMAIN trie :
        LET ys == TrieIterDrain(trie, TrieIter(p))
        IN  /\ trie[p].child_set = PresentChildren(p)
            /\ {y[2] : y \in Range(ys)} = PresentChildren(p)
            /\ \A k \in 1..Len(ys) : ys[k][1] = Append(p, ys[k][2])
            /\ \A k \in 1..(Len(ys) - 1) : ys[k][2] < ys[k + 1][2]

\* the root has the children a and b, and the node of "a" a child of its own
C13_Witness ==
    /\ PresentChildren(<<>>) = {0, 1}
    /\ TrieIterDrain(trie, TrieIter(<<>>)) = << <<<<0>>, 0>>, <<<<1>>, 1>> >>
    /\ <<0>> \in DOMAIN trie /\ PresentChildren(<<0>>) # {}

\* the indices at which get answers true, probed up to one word past the storage
BitSetProbes(b) == 0..((Len(b.data) + 1) * WORD_BITS - 1)
BitSetMembers(b) == {i \in BitSetProbes(b) : BitSetGet(b, i)}

C14_LenIsHighestPlusOne ==
    LET m == BitSetMembers(bits)
    IN  /\ bits.len = (IF m = {} THEN 0 ELSE SetMax(m) + 1)
        /\ \A i \in BitSetProbes(bits) : i >= bits.len => BitSetGet(bits, i) = FALSE

C14_StepRemove130 ==
    (BitSetMembers(bits) = {0, 130} /\ bitCall' = [op |-> "remove", i |-> 130])
        => bits'.len = 1

\* C14: after any sequence of add, remove and clear on a new BitSet, len() is 0
\* when no bit is set and otherwise one more than the highest index with get true;
\* get is false at every index from len() on, also beyond the storage; and
\* removing 130 from {0, 130} gives len() = 1.
C14_LenExact == [](C14_LenIsHighestPlusOne) /\ [][C14_StepRemove130]_vars

\* 130 has just been removed from a set of three words that still holds 0
C14_Witness ==
    /\ bitCall = [op |-> "remove", i |-> 130]
    /\ Len(bits.data) = 3 /\ BitSetMembers(bits) = {0} /\ bits.len = 1

\* C15: in every BitSet state reached by add, remove and clear, iter_ones yields
\* exactly the indices at which get is true, in strictly increasing order (hence
\* without duplicates) and then None, also for bits at the last position of a
\* storage word and for sets with empty words in between.
C15_IterOnesExact ==
    LET ys == IterOnes(bits)
    IN  /\ Range(ys) = BitSetMembers(bits)
        /\ \A k \in 1..(Len(ys) - 1) : ys[k] < ys[k + 1]

\* after a remove the set holds the last bit of its first word and a bit of its
\* third word, the second word being empty
C15_Witness ==
    /\ bitCall.op = "remove"
    /\ BitSetMembers(bits) = {63, 130} /\ bits.data[2] = {}
    /\ IterOnes(bits) = <<63, 130>>

\* C16: for every BitSet32 value reached by add, remove, set and clear with indices
\* below 32, iter_ones yields exactly the indices at which get is true (index 0
\* being the most significant bit), in strictly increasing order, and as many of
\* them as cardinality() counts.
C16_IterOnes32Exact ==
    LET ys == BitSet32IterOnes(bits32)
    IN  /\ Range(ys) = {i \in 0..31 : BitSet32Get(bits32, i)}
        /\ \A k \in 1..(Len(ys) - 1) : ys[k] < ys[k + 1]
        /\ Len(ys) = BitSet32Cardinality(bits32)

\* set(i, false) has just left the first, a middle and the last bit
C16_Witness ==
    /\ bitCall.op = "set false"
    /\ BitSet32IterOnes(bits32) = <<0, 15, 31>>
    /\ BitSet32Cardinality(bits32) = 3

\* the words needed to hold the indices below n
WordsFor(n) == (n + WORD_BITS - 1) \div WORD_BITS

\* C17 as stated: in every BitSet state reached by add, remove and clear the number
\* of storage words equals ceil(len() / 64), no word lying beyond the one that
\* contains the highest set bit.
C17_StorageTight == Len(bits.data) = WordsFor(bits.len)

C17_TrailingWordsZero ==
    /\ Len(bits.data) >= WordsFor(bits.len)
    /\ \A k \in (WordsFor(bits.len) + 1)..Len(bits.data) : bits.data[k] = {}

C17_StepOnlyAddGrows ==
    Len(bits'.data) =
        IF bitCall'.op = "add"
        THEN Max(Len(bits.data), BitSetIdx(bitCall'.i).idx + 1)
        ELSE Len(bits.data)

\* C17, amended: in every BitSet state reached by add, remove and clear the storage
\* holds at least ceil(len() / 64) words and every word beyond the one containing
\* the highest set bit is zero; add grows the storage to the word of its index,
\* and remove and clear leave the number of storage words as it is.
C17_StorageNeverShrinks == [](C17_TrailingWordsZero) /\ [][C17_StepOnlyAddGrows]_vars

\* clear has just emptied a set of three storage words, which are all still there
C17_Witness ==
    /\ bitCall.op = "clear"
    /\ bits.len = 0 /\ Len(bits.data) = 3 /\ WordsFor(bits.len) = 0

----------------------------------------------------------------------------
(* Claims on par_solve_radix (checked under SpecPar) *)

Joined == pc = "joined"

Workers == 1..Len(par.workers)

\* a step changes the buffers of one worker at most
C18_StepOwnBuffers ==
    \A j, k \in Workers :
        (/\ Len(par'.workers) = Len(par.workers)
         /\ par'.workers[j] # par.workers[j]
         /\ par'.workers[k] # par.workers[k]) => j = k

\* what a worker has printed when it is done does not depend on the others: it
\* is what its closure prints when run alone
C18_WorkersIndependent ==
    \A k \in Workers :
        par.workers[k].pc = "done" =>
            par.workers[k].st =
                SolveSeeds(trie, board, par.forest[k][1], par.forest[k][2],
                           [it |-> IndexIterNew, st |-> WorkerNew(par.forest[k][2]).st])

C18_NoWordTwice == NoDuplicates(par.out)

C18_UnionIsSequential == Joined => Range(par.out) = Range(SolveRadix(trie, board).out)

\* C18 (as stated): in par_solve_radix, under every interleaving of the workers, no
\* worker writes or depends on another worker's buffers, no word is printed twice,
\* and the set of words printed equals the set solve_radix prints on the same
\* trie and board.
C18_ParEqualsSequential ==
    /\ [](C18_WorkersIndependent /\ C18_NoWordTwice /\ C18_UnionIsSequential)
    /\ [][C18_StepOwnBuffers]_vars

\* no id is carried by words under two different children of the root
NoIdAcrossSubtrees ==
    \A p, q \in TrieWords \ {<<>>} :
        p[1] # q[1] => trie[p].node_type.id # trie[q].node_type.id

\* C18 (amended): the same, the set of words printed being that of solve_radix
\* when no two words under different children of the root carry the same id.
C18_ParEqualsSequentialDistinct ==
    /\ [](/\ C18_WorkersIndependent /\ C18_NoWordTwice
          /\ (NoIdAcrossSubtrees => C18_UnionIsSequential))
    /\ [][C18_StepOwnBuffers]_vars

\* two workers have both printed, their lines interleaved in an order solve_radix
\* never prints them in
C18_Witness ==
    /\ Joined /\ NoIdAcrossSubtrees
    /\ Len(par.workers) = 2
    /\ \A k \in Workers : Len(par.workers[k].st.out) >= 1
    /\ par.out # SolveRadix(trie, board).out

----------------------------------------------------------------------------
(* Claims on solve_radix and descend_radix (checked under Spec) *)

\* solve_radix has returned
Solved == pc # "solve_radix"

\* the texts of the words of two or more letters that have a simple path
LongWordsOnBoard == {Spell(p) : p \in {q \in TrieWords : Len(q) >= 2 /\ HasSimplePath(q)}}

C19_NoOneLetterWord ==
    Solved => \A p \in TrieWords : Len(p) = 1 => Spell(p) \notin Range(eager.out)

\* C19 (as stated): solve_radix emits exactly the words of the trie of two or more
\* letters that have a simple path on the board, and never a one-letter word.
C19_EagerExact ==
    /\ Solved => Range(eager.out) = LongWordsOnBoard
    /\ C19_NoOneLetterWord

\* C19 (amended): the same when distinct words of the trie carry distinct ids.
C19_EagerExactDistinctIds ==
    /\ (Solved /\ DistinctIds) => Range(eager.out) = LongWordsOnBoard
    /\ C19_NoOneLetterWord

\* solve_radix has returned; it has printed a longer word and has not printed a
\* one-letter word of the trie whose letter is on the board
C19_Witness ==
    /\ Solved /\ DistinctIds
    /\ eager.out # <<>>
    /\ \E p \in TrieWords : Len(p) = 1 /\ HasSimplePath(p) /\ Spell(p) \notin Range(eager.out)

\* the buffers c = <<word, path>> agree: one cell per letter, cell k holding
\* letter k, no cell twice
BuffersAgree(c) ==
    /\ Len(c[1]) = Len(c[2])
    /\ \A k \in 1..Len(c[2]) : grid[c[2][k] + 1] = c[1][k]
    /\ NoDuplicates(c[2])

\* C20: every call of descend_radix returns with the word and path buffers as they
\* were at its entry, and solve_radix ends with both empty; wherever a node is
\* classified, word and path have the same length, the cell path[k] holds the
\* letter word[k], and the cells of path are pairwise distinct.
C20_BuffersRestored ==
    Solved =>
        /\ eager.restored
        /\ eager.word = <<>> /\ eager.path = <<>>
        /\ \A c \in eager.seen : BuffersAgree(c)

\* solve_radix has returned after classifying along paths of two and of three
\* cells, a word among them
C20_Witness ==
    /\ Solved /\ eager.restored /\ eager.out # <<>>
    /\ \E c, d \in eager.seen : Len(c[2]) = 2 /\ Len(d[2]) = 3

----------------------------------------------------------------------------
(* Claims on DictBasedIterator (checked under Spec) *)

Frames == 1..Len(iter.state)

\* the trie node a frame iterates the children of; its length is the frame's depth
FramePrefix(k) == iter.state[k].iter.trie

\* the cells an ancestor set holds
AncestorCells(a) == {c \in 0..(Len(grid) - 1) : BitSetGet(a, c)}

\* node n of a frame with prefix p: pos is not an ancestor, there are Len(p) - 1
\* ancestors, and they are the cells before pos of a simple path that spells p
FrontierNodeOk(n, p) ==
    /\ ~BitSetGet(n.ancestors, n.pos)
    /\ Cardinality(AncestorCells(n.ancestors)) = Len(p) - 1
    /\ n.ancestors.len <= Len(grid)
    /\ \E path \in SimplePaths(grid, board.width, p, Len(p)) :
          Last(path) = n.pos /\ Range(Front(path)) = AncestorCells(n.ancestors)

C21_FramesOk ==
    \A k \in Frames :
        LET f == iter.state[k]
        IN  /\ Len(FramePrefix(k)) = k - 1
            /\ (k = 1) = (f.frontier = <<>>)
            /\ \A j \in 1..Len(f.frontier) : FrontierNodeOk(f.frontier[j], FramePrefix(k))

\* a frame that stays on the stack keeps its frontier, ancestor sets included
C21_StepFrontiersKept ==
    \A k \in Frames :
        (k <= Len(iter'.state) /\ iter'.state[k].iter.trie = FramePrefix(k))
            => iter'.state[k].frontier = iter.state[k].frontier

\* C21: in every state of DictBasedIterator each frame other than the root has a
\* non-empty frontier; in a frame at depth d >= 1 every frontier node has a pos
\* that is not among its ancestors, exactly d - 1 ancestors, and these with pos
\* are the cells of a simple path that spells the frame's prefix and ends at pos;
\* extending a node leaves the ancestor set of the node it was cloned from as it is.
C21_FrontierInvariant == [](C21_FramesOk) /\ [][C21_StepFrontiersKept]_vars

\* a frame at depth 3 holds a node with two ancestors, below frames at depths 1
\* and 2 whose frontiers are still on the stack
C21_Witness ==
    /\ Len(iter.state) = 4
    /\ \E j \in 1..Len(iter.state[4].frontier) :
          Cardinality(AncestorCells(iter.state[4].frontier[j].ancestors)) = 2
    /\ Len(iter.state[3].frontier) >= 2

C22_EmptyOnceExhausted == Exhausted => iter.state = <<>> /\ iter.word = <<>>

C22_StepStaysExhausted == Exhausted => (Exhausted' /\ lazyOut' = lazyOut)

\* C22: repeated calls of DictBasedIterator::next return None after finitely many
\* yields; from then on the frame stack and the word buffer are empty and every
\* further call returns None.
C22_Terminates ==
    /\ <>Exhausted
    /\ [](C22_EmptyOnceExhausted)
    /\ [][C22_StepStaysExhausted]_vars

\* the third call of next has returned None, after two yields, leaving the stack
\* and the word empty
C22_Witness ==
    /\ Exhausted /\ calls = 3 /\ Len(lazyOut) = 2
    /\ iter = [state |-> <<>>, word |-> <<>>]

----------------------------------------------------------------------------
(* Claims on the naive board (checked under SpecRefine) *)

\* solve and solve_radix have both returned
BothSolved == pc = "new"

\* the letters asked for: those the boards hold, and the first and the last of
\* the alphabet, which they do not
ProbeLetters == SearchLetters \cup BoardLetters

\* neighbors(i, v) and any(v) give the same cells on the two boards
C23_SameCells ==
    \A v \in ProbeLetters :
        /\ Range(BoardAny(board, v)) = Range(SimpleAny(Simple, v))
        /\ \A i \in 0..(Len(grid) - 1) :
              Range(BoardNeighbors(board, i, v)) = Range(SimpleNeighbors(Simple, i, v))

\* C23 as stated: on a grid of width >= 2 and height >= 2 the two boards give
\* the same set of cells for neighbors(i, v) and for any(v), for every cell i and
\* letter v, and solve and solve_radix print the same set of words.
C23_Refines ==
    (board.width >= 2 /\ board.height >= 2) =>
        /\ C23_SameCells
        /\ BothSolved => Range(naive.out) = Range(eager.out)

\* C23 (amended): the same, the sets of words printed being the same when no
\* two words of the trie carry the same id.
C23_RefinesDistinctIds ==
    (board.width >= 2 /\ board.height >= 2) =>
        /\ C23_SameCells
        /\ (BothSolved /\ DistinctIds) => Range(naive.out) = Range(eager.out)

\* both have run on a 3 x 3 board, whose cell 4 has eight neighbours, and have
\* printed a word; the two boards list the neighbours of some cell in different
\* orders
C23_Witness ==
    /\ BothSolved /\ DistinctIds
    /\ board.width = 3 /\ board.height = 3
    /\ naive.out # <<>>
    /\ \E v \in SearchLetters :
          /\ Len(SimpleNeighbors(Simple, 4, v)) >= 2
          /\ BoardNeighbors(board, 4, v) # SimpleNeighbors(Simple, 4, v)

----------------------------------------------------------------------------
(* Claims on SimpleBoggleBoard::read (checked under SpecRead) *)

ReadReturned == reader.res # NoRead

\* line k of the input, trimmed, holds a character that is not a letter or is
\* not as long as the first line, trimmed
BadLine(k) ==
    \/ ~IsAlpha(Trim(reader.lines[k]))
    \/ Len(Trim(reader.lines[k])) # Len(Trim(reader.lines[1]))

\* C24: read returns Err whenever a line of the input, the first or a later
\* one, holds a character that is not a letter or has another trimmed length
\* than the first; a board returned as Ok has width * height cells, each a
\* letter value in [0, 26).
C24_ReadRejectsMalformed ==
    ReadReturned =>
        /\ (\E k \in 1..Len(reader.lines) : BadLine(k)) => reader.res.tag = "Err"
        /\ reader.res.tag = "Ok" =>
              LET b == reader.res.board
              IN  /\ Len(b.cells) = b.width * b.height
                  /\ \A k \in 1..Len(b.cells) : b.cells[k] \in 0..(ALPHABET_SIZE - 1)

----------------------------------------------------------------------------
(* Claims on the order of the lazy form (checked under Spec) *)

\* a is before b in lexicographic order: a proper prefix of b, or smaller at
\* the first index where the two differ
LexLess(a, b) ==
    \E k \in 1..Len(b) :
        /\ \A j \in 1..(k - 1) : j <= Len(a) /\ a[j] = b[j]
        /\ \/ k = Len(a) + 1
           \/ k <= Len(a) /\ a[k] < b[k]

\* the last call of next returned Some
Yielded == pc = "next" /\ lazyOut # <<>>

\* after a yield the word buffer spells the string returned and has one letter
\* per frame above the root frame
C25_WordPerFrame ==
    Yielded =>
        /\ lazyOut[Len(lazyOut)] = IdxVecToString(iter.word)
        /\ Len(iter.word) = Len(iter.state) - 1

\* a step that yields after an earlier yield: the letters yielded are after
\* those of the earlier yield in lexicographic order
C25_StepIncreasing ==
    (Yielded /\ Yielded' /\ lazyOut' # lazyOut) => LexLess(iter.word, iter'.word)

\* C25: DictBasedIterator yields in trie pre-order: each yielded sequence of
\* letter values is after the one yielded before it in lexicographic order (a
\* word before its extensions, siblings by ascending letter), and at every
\* yield word.len() == state.len() - 1.
C25_PreOrder == [](C25_WordPerFrame) /\ [][C25_StepIncreasing]_vars

\* a second yield, of the two-letter extension of the word yielded first
C25_Witness ==
    /\ Yielded /\ Len(lazyOut) = 2
    /\ Len(iter.word) = 2 /\ Len(iter.state) = 3
    /\ lazyOut[1] = IdxVecToString(Front(iter.word))

====
